---- MODULE Spec2Model ----
(***************************************************************************)
(* Model of src/src/elements/custom-main.js: the PatternProductForm        *)
(* controller (custom element product-form-checkboxes) and the part of the *)
(* VariantChangeListener that stamps variant titles on add-on checkboxes.  *)
(*                                                                         *)
(* The page is the one the code is written for: a product form, a number   *)
(* of product-form-checkboxes fragments in the document, and the add-on    *)
(* checkboxes (one optional #pattern_product, any number of                *)
(* pattern_needles) inside those fragments.  The custom elements are       *)
(* upgraded in document order and stay in the document; the user and the   *)
(* host act on the page once all of them are upgraded.                     *)
(***************************************************************************)
EXTENDS Integers, Sequences, FiniteSets, TLC

(***************************************************************************)
(* Bounds of the model.                                                    *)
(***************************************************************************)
MaxNeedles == 2      \* pattern-needle checkboxes on the page
NFrag == 2           \* product-form-checkboxes fragments on the page
MaxInFlight == 2     \* cart-add requests in flight at once
MaxConnects == 2     \* connections of the variant-change-listener element
MaxTimers == 4       \* setTimeout callbacks pending at once

Frags == 1..NFrag

(***************************************************************************)
(* JavaScript values.  Strings that the code parses are tuples of one-     *)
(* character strings; a number is a record that is NaN or carries an       *)
(* integer; a DOM attribute is present (with its string) or absent.        *)
(***************************************************************************)
NaN == [nan |-> TRUE, v |-> 0]
Num(n) == [nan |-> FALSE, v |-> n]

Absent == [has |-> FALSE, s |-> <<>>]
Attr(s) == [has |-> TRUE, s |-> s]

Digits == {"0", "1", "2", "3", "4", "5", "6", "7", "8", "9"}
DigitVal(c) ==
  CASE c = "0" -> 0 [] c = "1" -> 1 [] c = "2" -> 2 [] c = "3" -> 3 [] c = "4" -> 4
    [] c = "5" -> 5 [] c = "6" -> 6 [] c = "7" -> 7 [] c = "8" -> 8 [] c = "9" -> 9
DigitChar == <<"1", "2", "3", "4", "5", "6", "7", "8", "9">>

IsDigit(c) == c \in Digits

RECURSIVE SkipSpace(_)
SkipSpace(s) == IF s # <<>> /\ Head(s) = " " THEN SkipSpace(Tail(s)) ELSE s

\* the value of the longest prefix of digits of s, started from acc
RECURSIVE DigitsPrefix(_, _)
DigitsPrefix(s, acc) ==
  IF s # <<>> /\ IsDigit(Head(s))
    THEN DigitsPrefix(Tail(s), 10 * acc + DigitVal(Head(s)))
    ELSE acc

\* parseInt(s, 10): leading white space, an optional sign, then the longest
\* prefix of decimal digits; NaN when there is no digit.
ParseInt(s) ==
  LET t == SkipSpace(s)
      neg == t # <<>> /\ Head(t) = "-"
      u == IF t # <<>> /\ Head(t) \in {"-", "+"} THEN Tail(t) ELSE t
  IN  IF u = <<>> \/ ~IsDigit(Head(u))
        THEN NaN
        ELSE Num(IF neg THEN 0 - DigitsPrefix(u, 0) ELSE DigitsPrefix(u, 0))

\* parseFloat on the strings the price attributes carry (integer cents, as the
\* template renders them): the same digits, the same NaN.
ParseFloat(s) == ParseInt(s)

\* x || d for a number x: d when x is NaN or 0
OrDefault(x, d) == IF x.nan \/ x.v = 0 THEN d ELSE x.v

\* x + y and x * y on numbers: NaN is contagious
Add(x, y) == IF x.nan \/ y.nan THEN NaN ELSE Num(x.v + y.v)
Mul(x, y) == IF x.nan \/ y.nan THEN NaN ELSE Num(x.v * y.v)

(***************************************************************************)
(* JSON.  The text of a JSON-carrying attribute or script is malformed     *)
(* (JSON.parse throws), the text null, or the text of an object; a member  *)
(* of an object is a JSON number or a JSON string.                         *)
(***************************************************************************)
JNum(n) == [t |-> "num", n |-> n, s |-> <<>>]
JStr(s) == [t |-> "str", n |-> 0, s |-> s]

\* truthiness of an object member: 0 and "" are falsy
Truthy(j) == IF j.t = "num" THEN j.n # 0 ELSE j.s # <<>>

\* parseInt(j, 10) of an object member: a number goes through its decimal text
ParseIntJ(j) == IF j.t = "num" THEN Num(j.n) ELSE ParseInt(j.s)

Titles == {"Large", "Small"}

\* the content of data-additional-product-count-for-variant
NoMap == [kind |-> "absent", obj |-> <<>>]
EmptyMap == [kind |-> "empty", obj |-> <<>>]
BadMap == [kind |-> "malformed", obj |-> <<>>]
NullMap == [kind |-> "null", obj |-> <<>>]
ObjMap(f) == [kind |-> "object", obj |-> f]

\* sizeCountData is falsy: the attribute is absent or the empty string
NoSizeCountData(cmap) == cmap.kind \in {"absent", "empty"}

\* the multiplier of getCheckboxPrice: 1 unless the map parses, the title is
\* non-empty and the map's entry for it is truthy; then parseInt(entry) || 1
countMultiplier(cmap, title) ==
  IF NoSizeCountData(cmap) THEN 1
  ELSE IF cmap.kind = "malformed" THEN 1
  ELSE IF cmap.kind = "object" /\ title # "" /\ title \in DOMAIN cmap.obj
            /\ Truthy(cmap.obj[title])
         THEN OrDefault(ParseIntJ(cmap.obj[title]), 1)
         ELSE 1

\* the quantity of buildPatternProductItem: the same rule, written again there
patternQuantity(cmap, title) ==
  IF NoSizeCountData(cmap) THEN 1
  ELSE IF cmap.kind = "malformed" THEN 1
  ELSE IF cmap.kind = "object" /\ title # "" /\ title \in DOMAIN cmap.obj
            /\ Truthy(cmap.obj[title])
         THEN OrDefault(ParseIntJ(cmap.obj[title]), 1)
         ELSE 1

(***************************************************************************)
(* The page.  boxes is the sequence of add-on checkboxes in document       *)
(* order; each lies in one product-form-checkboxes fragment and carries    *)
(* the data attributes the template rendered.  form holds the hidden       *)
(* fields of the product form.                                             *)
(***************************************************************************)
VARIABLES
  boxes,          \* the checkboxes of the fragments, in document order (never changes)
  form,           \* the product form's input[name=id] and input[name=quantity]
  win,            \* the host's globals (money formatter, cart element)
  checked,        \* box -> its checked state
  curTitle,       \* box -> its data-current-variant-title attribute
  countText,      \* box -> the text of its [data-additional-product-count] span
  blob,           \* the [data-selected-variant] script inside variant-selects
  priceText,      \* text of the [data-product-price] node
  priceClass,     \* that node carries price--with-pattern-product
  hidden,         \* the hidden input pattern_product_id of the form
  btn,            \* the form's submit control
  ctl,            \* fragment -> the state of its PatternProductForm
  formListeners,  \* capture-phase submit listeners of the form, in order
  boxListeners,   \* box -> the controllers listening to its change event, in order
  genericListeners, \* box -> the controllers whose generic listener is on it, in order
  inflight,       \* number of cart-add requests not yet settled
  outbox,         \* the notifications broadcast by the last step, in order
  last,           \* what the last step was and did
  formBlob,       \* the [data-selected-variant] script inside product-form
  torn,           \* the fragments removed from the document (controller torn down)
  prop,           \* the state of the element that propagates the variant title
  subs,           \* the subscriptions made at the host's publish/subscribe, in order
  timers,         \* the setTimeout callbacks of the VariantChangeListener not yet run
  deferred        \* the controllers whose deferred recompute has not yet run, in order

vars == <<boxes, form, win, checked, curTitle, countText, blob, priceText,
          priceClass, hidden, btn, ctl, formListeners, boxListeners,
          genericListeners, inflight, outbox, last, formBlob, torn, prop, subs, timers, deferred>>

Boxes == DOMAIN boxes

IsNeedle(b) == boxes[b].kind = "needle"
IsPattern(b) == boxes[b].kind = "pp"

\* the read of an attribute that no one writes
datasetTitleUnset(t) == ""

\* checkbox.dataset.currentVariantTitle || ""
datasetTitle(t) == IF t.has THEN t.s ELSE ""

(***************************************************************************)
(* The part of the state a handler reads and writes while it runs, as one  *)
(* record that the translated methods pass along.                          *)
(***************************************************************************)
World ==
  [checked |-> checked, curTitle |-> curTitle, countText |-> countText, ctl |-> ctl,
   priceText |-> priceText, priceClass |-> priceClass, hidden |-> hidden,
   btn |-> btn, outbox |-> <<>>, recalcBy |-> 0]

\* fallback of updateCurrentVariantPrice: the pattern-product checkbox's
\* data-main-product-price, when this controller has a pattern-product checkbox
mainProductPriceFallback(w, k) ==
  LET pp == w.ctl[k].patternProductCheckbox
  IN  IF pp = 0 THEN w
      ELSE [w EXCEPT !.ctl[k].currentVariantPrice =
              IF boxes[pp].mainPrice.has /\ boxes[pp].mainPrice.s # <<>>
                THEN ParseFloat(boxes[pp].mainPrice.s)
                ELSE Num(0)]

\* the lookup of the script: variantSelects.querySelector("[data-selected-variant]"),
\* and productForm.querySelector("[data-selected-variant]") if (!variantScript)
findVariantScript(inVariantSelects, inProductForm) ==
  IF inVariantSelects.kind # "absent" THEN inVariantSelects ELSE inProductForm

updateCurrentVariantPriceFrom(w, k, variantScript) ==
  IF variantScript.kind = "ok"
    THEN IF variantScript.hasPrice /\ variantScript.price # 0
           THEN [w EXCEPT !.ctl[k].currentVariantPrice =
                            Num(OrDefault(Num(variantScript.price), 0))]
           ELSE w
    ELSE mainProductPriceFallback(w, k)

updateCurrentVariantPrice(w, k) ==
  updateCurrentVariantPriceFrom(w, k, findVariantScript(blob, formBlob))

\* getCheckboxPrice without the multiplier
getCheckboxPriceBase(w, b) ==
  IF boxes[b].price.has /\ boxes[b].price.s # <<>>
    THEN ParseFloat(boxes[b].price.s) ELSE Num(0)

getCheckboxPrice(w, b) ==
  LET additionalProductPrice ==
        IF boxes[b].price.has /\ boxes[b].price.s # <<>>
          THEN ParseFloat(boxes[b].price.s) ELSE Num(0)
  IN  Mul(additionalProductPrice,
          Num(countMultiplier(boxes[b].cmap, datasetTitle(w.curTitle[b]))))

\* the sum of getCheckboxPrice over the checked boxes of a sequence of boxes
RECURSIVE SumChecked(_, _)
SumChecked(w, bs) ==
  IF bs = <<>> THEN Num(0)
  ELSE Add(IF w.checked[Head(bs)] THEN getCheckboxPrice(w, Head(bs)) ELSE Num(0),
           SumChecked(w, Tail(bs)))

\* the formatter with the theme's function looked at first
formatPriceThemeFirst(c) ==
  IF "theme" \in win.formatMoney
    THEN [by |-> "theme", nan |-> c.nan, neg |-> FALSE, whole |-> c.v, frac |-> 0]
  ELSE IF "Shopify" \in win.formatMoney
    THEN [by |-> "Shopify", nan |-> c.nan, neg |-> FALSE, whole |-> c.v, frac |-> 0]
  ELSE IF c.nan
    THEN [by |-> "fallback", nan |-> TRUE, neg |-> FALSE, whole |-> 0, frac |-> 0]
  ELSE LET a == IF c.v < 0 THEN 0 - c.v ELSE c.v
       IN  [by |-> "fallback", nan |-> FALSE, neg |-> c.v < 0,
            whole |-> a \div 100, frac |-> a % 100]

\* formatPrice: Shopify.formatMoney, else theme.formatMoney, else "$" and the
\* cents divided by 100 with two decimals
formatPrice(c) ==
  IF "Shopify" \in win.formatMoney
    THEN [by |-> "Shopify", nan |-> c.nan, neg |-> FALSE, whole |-> c.v, frac |-> 0]
  ELSE IF "theme" \in win.formatMoney
    THEN [by |-> "theme", nan |-> c.nan, neg |-> FALSE, whole |-> c.v, frac |-> 0]
  ELSE IF c.nan
    THEN [by |-> "fallback", nan |-> TRUE, neg |-> FALSE, whole |-> 0, frac |-> 0]
  ELSE LET a == IF c.v < 0 THEN 0 - c.v ELSE c.v
       IN  [by |-> "fallback", nan |-> FALSE, neg |-> c.v < 0,
            whole |-> a \div 100, frac |-> a % 100]

updatePriceDisplay(w, totalPrice, isChecked) ==
  [w EXCEPT !.priceText = formatPrice(totalPrice), !.priceClass = isChecked]

\* the boxes recalculateTotalPrice adds up: the pattern product, then the needles
addOnsOf(c) ==
  (IF c.patternProductCheckbox # 0 THEN <<c.patternProductCheckbox>> ELSE <<>>)
    \o c.patternNeedleCheckboxes

\* the sum of getCheckboxPrice over the checked add-ons of controller k
totalAdditionalPriceOf(w, k) == SumChecked(w, addOnsOf(w.ctl[k]))

\* the end of recalculateTotalPrice: the total goes to the price display
displayTotalPrice(w, k, totalAdditionalPrice) ==
  [updatePriceDisplay(w, Add(w.ctl[k].currentVariantPrice, totalAdditionalPrice),
                      ~totalAdditionalPrice.nan /\ totalAdditionalPrice.v > 0)
     EXCEPT !.recalcBy = k]

\* recalculateTotalPrice once the current variant price is updated
recalculateWithCurrentPrice(w, k) ==
  displayTotalPrice(w, k, totalAdditionalPriceOf(w, k))

recalculateTotalPrice(w, k) ==
  recalculateWithCurrentPrice(updateCurrentVariantPrice(w, k), k)

\* getCalculatedTotalPrice once the current variant price is updated
calculatedTotalWithCurrentPrice(w, k) ==
  Add(w.ctl[k].currentVariantPrice, totalAdditionalPriceOf(w, k))

getCalculatedTotalPrice(w, k) ==
  calculatedTotalWithCurrentPrice(updateCurrentVariantPrice(w, k), k)

\* updateInitialCountForCheckbox: rewrites the count span of the box when the
\* box has size-count data that parses
updateInitialCountForCheckbox(w, b) ==
  IF NoSizeCountData(boxes[b].cmap) \/ boxes[b].cmap.kind = "malformed"
    THEN w
    ELSE [w EXCEPT !.countText[b] =
            countMultiplier(boxes[b].cmap, datasetTitle(w.curTitle[b]))]

\* updateFormData: keeps, fills or removes the first input[name=pattern_product_id]
updateFormData(w, isChecked, additionalProductId) ==
  IF isChecked /\ additionalProductId.has /\ additionalProductId.s # <<>>
    THEN IF w.hidden = <<>>
           THEN [w EXCEPT !.hidden = <<additionalProductId.s>>]
           ELSE [w EXCEPT !.hidden[1] = additionalProductId.s]
    ELSE IF w.hidden # <<>> THEN [w EXCEPT !.hidden = Tail(@)] ELSE w

\* dispatchPatternProductChangeEvent: the event is dispatched on the controller
\* element and then on the document
dispatchPatternProductChangeEvent(w, k, data) ==
  [w EXCEPT !.outbox = @ \o
     << [type |-> "product:pattern:change", bubbles |-> TRUE, on |-> "this",
         by |-> k, detail |-> data],
        [type |-> "product:pattern:change", bubbles |-> TRUE, on |-> "document",
         by |-> k, detail |-> data] >>]

\* the detail of the product:pattern:change event, from the values that
\* handlePatternProductChange has read and computed
changeEventDetail(w, k, b, additionalProductPrice, currentVariantTitle, mult) ==
  [isChecked |-> w.checked[b],
   mainProductPrice |-> w.ctl[k].currentVariantPrice,
   patternProductPrice |-> Mul(additionalProductPrice, Num(mult)),
   patternProductPriceBase |-> additionalProductPrice,
   countMultiplier |-> mult,
   totalPrice |-> getCalculatedTotalPrice(w, k),
   patternProductId |-> boxes[b].pid,
   currentVariantTitle |-> currentVariantTitle]

\* handlePatternProductChange from its reading of the checkbox's data on:
\* the multiplier, the update of the current variant price, the event
changeEventFor(w, k, b, additionalProductPrice, currentVariantTitle) ==
  dispatchPatternProductChangeEvent(updateCurrentVariantPrice(w, k), k,
    changeEventDetail(updateCurrentVariantPrice(w, k), k, b, additionalProductPrice,
                      currentVariantTitle,
                      countMultiplier(boxes[b].cmap, currentVariantTitle)))

\* handlePatternProductChange after the recompute and the count update
changeAfterRecompute(w, k, b) ==
  updateFormData(
    changeEventFor(w, k, b,
                   IF boxes[b].price.has /\ boxes[b].price.s # <<>>
                     THEN ParseFloat(boxes[b].price.s) ELSE Num(0),
                   datasetTitle(w.curTitle[b])),
    w.checked[b], boxes[b].pid)

handlePatternProductChange(w, k, b) ==
  changeAfterRecompute(
    updateInitialCountForCheckbox(recalculateTotalPrice(w, k), b), k, b)

\* a change event on box b: its listeners run in the order they were added
RECURSIVE RunChangeListeners(_, _, _)
RunChangeListeners(w, ks, b) ==
  IF ks = <<>> THEN w
  ELSE RunChangeListeners(handlePatternProductChange(w, Head(ks), b), Tail(ks), b)

\* handleGenericCheckboxChange: product:checkbox:change is dispatched on the
\* controller element and then on the document
handleGenericCheckboxChange(w, k, b) ==
  [w EXCEPT !.outbox = @ \o
     << [type |-> "product:checkbox:change", bubbles |-> TRUE, on |-> "this",
         by |-> k,
         detail |-> [name |-> IF boxes[b].name # "" THEN boxes[b].name
                              ELSE boxes[b].id,
                     isChecked |-> w.checked[b], value |-> boxes[b].value,
                     checkbox |-> b]],
        [type |-> "product:checkbox:change", bubbles |-> TRUE, on |-> "document",
         by |-> k,
         detail |-> [name |-> IF boxes[b].name # "" THEN boxes[b].name
                              ELSE boxes[b].id,
                     isChecked |-> w.checked[b], value |-> boxes[b].value,
                     checkbox |-> b]] >>]

RECURSIVE RunGenericListeners(_, _, _)
RunGenericListeners(w, ks, b) ==
  IF ks = <<>> THEN w
  ELSE RunGenericListeners(handleGenericCheckboxChange(w, Head(ks), b), Tail(ks), b)

dispatchChange(w, b) ==
  RunGenericListeners(RunChangeListeners(w, boxListeners[b], b),
                      genericListeners[b], b)

RECURSIVE UpdateCounts(_, _)
UpdateCounts(w, bs) ==
  IF bs = <<>> THEN w
  ELSE UpdateCounts(updateInitialCountForCheckbox(w, Head(bs)), Tail(bs))

(***************************************************************************)
(* init(), run by connectedCallback.                                       *)
(***************************************************************************)
BoxSeq == [i \in 1..Len(boxes) |-> i]

\* this.querySelector("#pattern_product"), else the first one in any fragment
findPatternProduct(k) ==
  LET own == SelectSeq(BoxSeq, LAMBDA b: IsPattern(b) /\ boxes[b].frag = k)
      any == SelectSeq(BoxSeq, LAMBDA b: IsPattern(b))
  IN  IF own # <<>> THEN own[1] ELSE IF any # <<>> THEN any[1] ELSE 0

\* the merge with the two parts swapped
findNeedlesOthersFirst(k) ==
  SelectSeq(BoxSeq, LAMBDA b: IsNeedle(b) /\ boxes[b].frag # k)
    \o SelectSeq(BoxSeq, LAMBDA b: IsNeedle(b) /\ boxes[b].frag = k)

\* the merge without the test container !== this
findNeedlesEveryContainer(k) ==
  SelectSeq(BoxSeq, LAMBDA b: IsNeedle(b) /\ boxes[b].frag = k)
    \o SelectSeq(BoxSeq, LAMBDA b: IsNeedle(b))

\* the needles of this fragment, then those of the other fragments
findNeedles(k) ==
  SelectSeq(BoxSeq, LAMBDA b: IsNeedle(b) /\ boxes[b].frag = k)
    \o SelectSeq(BoxSeq, LAMBDA b: IsNeedle(b) /\ boxes[b].frag # k)

\* this.checkboxes.set(key, checkbox) on a Map kept as its entries in
\* insertion order: an entry with the same key is overwritten in place
mapSet(m, key, checkbox) ==
  IF \E i \in DOMAIN m : m[i].key = key
    THEN [i \in DOMAIN m |->
            IF m[i].key = key THEN [key |-> key, box |-> checkbox] ELSE m[i]]
    ELSE Append(m, [key |-> key, box |-> checkbox])

\* checkbox.id || checkbox.name || `pattern_needle_${this.checkboxes.size}`
needleKey(b, size) ==
  IF boxes[b].id # "" THEN boxes[b].id
  ELSE IF boxes[b].name # "" THEN boxes[b].name
  ELSE <<"pattern_needle_", size>>

\* the references setupPatternNeedleCheckboxes stores for the needles nd
RECURSIVE storeNeedles(_, _)
storeNeedles(m, nd) ==
  IF nd = <<>> THEN m
  ELSE storeNeedles(mapSet(m, needleKey(Head(nd), Len(m)), Head(nd)), Tail(nd))

\* the reference setupPatternProductCheckbox stores
storePatternProduct(m, pp) ==
  IF pp = 0 THEN m ELSE mapSet(m, "pattern_product", pp)

\* the checkboxes of fragment k, the managed ones included
genericCheckboxesNoSkip(k) ==
  SelectSeq(BoxSeq, LAMBDA b: boxes[b].kind # "detached" /\ boxes[b].frag = k)

\* setupGenericCheckboxListeners: the checkboxes inside this fragment, without
\* the one with id pattern_product and those named pattern_needles([])
genericCheckboxes(k) ==
  SelectSeq(BoxSeq, LAMBDA b:
    /\ boxes[b].kind # "detached" /\ boxes[b].frag = k
    /\ boxes[b].id # "pattern_product"
    /\ boxes[b].name \notin {"pattern_needles", "pattern_needles[]"})

\* the references setupGenericCheckboxListeners stores, each under the key
\* checkbox.name || checkbox.id || `checkbox-${this.checkboxes.size}`
RECURSIVE storeGeneric(_, _)
storeGeneric(m, gs) ==
  IF gs = <<>> THEN m
  ELSE storeGeneric(
         mapSet(m, IF boxes[Head(gs)].name # "" THEN boxes[Head(gs)].name
                   ELSE IF boxes[Head(gs)].id # "" THEN boxes[Head(gs)].id
                   ELSE <<"checkbox-", Len(m)>>,
                Head(gs)),
         Tail(gs))

\* init() from the lookup of the checkboxes on: the references are kept and
\* the count of each add-on found is updated
initWith(w, k, pp, nd) ==
  UpdateCounts([w EXCEPT !.ctl[k].patternProductCheckbox = pp,
                         !.ctl[k].patternNeedleCheckboxes = nd,
                         !.ctl[k].checkboxes =
                            storeGeneric(
                              storeNeedles(storePatternProduct(@, pp), nd),
                              genericCheckboxes(k)),
                         !.ctl[k].form = TRUE,
                         !.ctl[k].variantChangeUnsubscriber = win.pubsub,
                         !.ctl[k].optionChangeUnsubscriber = win.pubsub,
                         !.ctl[k].connected = TRUE],
               (IF pp # 0 THEN <<pp>> ELSE <<>>) \o nd)

init(w, k) ==
  initWith(updateCurrentVariantPrice(w, k), k, findPatternProduct(k), findNeedles(k))

connectedCallback(k) ==
  /\ ~ctl[k].connected
  /\ \A j \in Frags : j < k => ctl[j].connected
  /\ \E w \in {init(World, k)} :
         /\ ctl' = w.ctl
         /\ countText' = w.countText
         /\ boxListeners' =
              [b \in Boxes |->
                 IF \E i \in DOMAIN addOnsOf(w.ctl[k]) : addOnsOf(w.ctl[k])[i] = b
                   THEN Append(boxListeners[b], k) ELSE boxListeners[b]]
         /\ genericListeners' =
              [b \in Boxes |->
                 IF \E i \in DOMAIN genericCheckboxes(k) : genericCheckboxes(k)[i] = b
                   THEN Append(genericListeners[b], k) ELSE genericListeners[b]]
         /\ formListeners' = Append(formListeners, k)
         /\ outbox' = <<>>
         /\ last' = [op |-> "connected", by |-> k]
  /\ UNCHANGED <<boxes, form, win, formBlob, torn, prop, subs, timers, checked, curTitle, blob, priceText,
                 priceClass, hidden, btn, inflight, deferred>>

\* the custom elements are upgraded, in document order, before any event
Upgraded == \A k \in Frags : ctl[k].connected

\* the user clicks box b: its checked state flips and its change event fires
Toggle(b) ==
  /\ Upgraded
  /\ \E w \in {dispatchChange([World EXCEPT !.checked[b] = ~@], b)} :
         /\ checked' = w.checked
         /\ ctl' = w.ctl
         /\ countText' = w.countText
         /\ priceText' = w.priceText
         /\ priceClass' = w.priceClass
         /\ hidden' = w.hidden
         /\ outbox' = w.outbox
         /\ last' = [op |-> "change", box |-> b, recalcBy |-> w.recalcBy]
  /\ UNCHANGED <<boxes, form, win, formBlob, torn, prop, subs, timers, curTitle, blob, btn,
                 formListeners, boxListeners, genericListeners, inflight, deferred>>

(***************************************************************************)
(* Form submission.                                                        *)
(***************************************************************************)
NoItem == [null |-> TRUE, id |-> NaN, quantity |-> 0]
Item(id, q) == [null |-> FALSE, id |-> id, quantity |-> q]

\* buildPatternProductItem without the quantity by variant
buildPatternProductItemUnit(w, b) ==
  LET additionalVariantId == boxes[b].vid
  IN  IF additionalVariantId.has /\ additionalVariantId.s # <<>>
        THEN IF ParseInt(additionalVariantId.s).nan
               THEN NoItem
               ELSE Item(ParseInt(additionalVariantId.s), 1)
        ELSE NoItem

buildPatternProductItem(w, b) ==
  LET additionalVariantId == boxes[b].vid
      patternQty == patternQuantity(boxes[b].cmap, datasetTitle(w.curTitle[b]))
  IN  IF additionalVariantId.has /\ additionalVariantId.s # <<>>
        THEN IF ParseInt(additionalVariantId.s).nan
               THEN NoItem
               ELSE Item(ParseInt(additionalVariantId.s), patternQty)
        ELSE NoItem

\* the items of the checked needles that could be built, in the order of the
\* controller's needle list (a needle whose item is null is left out)
\* if (item) items.push(item)
pushItem(item) == IF item.null THEN <<>> ELSE <<item>>

RECURSIVE needleItems(_, _)
needleItems(w, bs) ==
  IF bs = <<>> THEN <<>>
  ELSE (IF w.checked[Head(bs)] THEN pushItem(buildPatternProductItem(w, Head(bs)))
        ELSE <<>>)
         \o needleItems(w, Tail(bs))

\* the filter without its test of the quantity
invalidItemIdOnly(item) == item.id.nan \/ item.id.v = 0

\* (item) => !item.id || isNaN(item.id) || item.quantity <= 0
invalidItem(item) == item.id.nan \/ item.id.v = 0 \/ item.quantity <= 0

enableSubmitButton(w) == [w EXCEPT !.btn = [disabled |-> FALSE, loading |-> FALSE]]

\* handleAddToCartError: the message is written to the form's
\* [data-cart-errors-container] and theme:cart:add:error is dispatched
handleAddToCartError(w, message) ==
  [w EXCEPT !.outbox = @ \o
     << [type |-> "errorContainer.textContent", on |-> "form",
         detail |-> IF message = "" THEN "Failed to add product to cart" ELSE message],
        [type |-> "theme:cart:add:error", on |-> "document", detail |-> message] >>]

\* the check that looks at the pattern product only
hasCheckedAddOnPatternOnly(w, k) ==
  LET c == w.ctl[k]
  IN  c.patternProductCheckbox # 0 /\ w.checked[c.patternProductCheckbox]

\* the check at the head of handleFormSubmit
hasCheckedAddOn(w, k) ==
  LET c == w.ctl[k]
  IN  \/ c.patternProductCheckbox # 0 /\ w.checked[c.patternProductCheckbox]
      \/ \E i \in DOMAIN c.patternNeedleCheckboxes :
            w.checked[c.patternNeedleCheckboxes[i]]

\* handleFormSubmit of controller k on a submit event it takes over: the world
\* after it and what it did
\* the pattern product of controller k is there and checked
patternChecked(w, k) ==
  w.ctl[k].patternProductCheckbox # 0 /\ w.checked[w.ctl[k].patternProductCheckbox]

\* the item built for the pattern product of controller k when it is checked
patternItem(w, k) ==
  IF patternChecked(w, k)
    THEN buildPatternProductItem(w, w.ctl[k].patternProductCheckbox) ELSE NoItem

\* the main item: parseInt(variantIdInput.value, 10) and
\* quantityInput ? parseInt(quantityInput.value, 10) || 1 : 1
mainItem ==
  Item(ParseInt(form.idInput.s),
       IF form.qtyInput.has THEN OrDefault(ParseInt(form.qtyInput.s), 1) ELSE 1)

\* the validation and the POST, for the items built
validateAndPost(w, items) ==
  IF \E i \in DOMAIN items : invalidItem(items[i])
    THEN [w |-> enableSubmitButton(w), outcome |-> "invalidItems", items |-> items]
    ELSE [w |-> w, outcome |-> "posted", items |-> items]

\* handleFormSubmit once the submit control is disabled
submitWithButtonDisabled(w, k, ppItem) ==
  IF ~form.idInput.has
    THEN [w |-> enableSubmitButton(w), outcome |-> "noVariantId", items |-> <<>>]
  ELSE IF patternChecked(w, k) /\ ppItem.null
    THEN [w |-> handleAddToCartError(enableSubmitButton(w),
                  "Pattern product variant not available. Please try again."),
          outcome |-> "patternUnavailable", items |-> <<>>]
  ELSE validateAndPost(w,
         needleItems(w, w.ctl[k].patternNeedleCheckboxes)
           \o pushItem(ppItem) \o <<mainItem>>)

\* the handler with a guard on the disabled submit control
handleFormSubmitUnlessDisabled(w, k) ==
  IF w.btn.disabled THEN [w |-> w, outcome |-> "ignored", items |-> <<>>]
  ELSE submitWithButtonDisabled([w EXCEPT !.btn = [disabled |-> TRUE, loading |-> TRUE]],
                                k, patternItem(w, k))

handleFormSubmit(w, k) ==
  submitWithButtonDisabled([w EXCEPT !.btn = [disabled |-> TRUE, loading |-> TRUE]],
                           k, patternItem(w, k))

(***************************************************************************)
(* The controller of the version with one add-on (the pattern product and  *)
(* no needles).  It reads the variant id and the quantity map from         *)
(* attributes of other names; the page's values for them are those of      *)
(* vid and cmap.                                                           *)
(***************************************************************************)
\* the head of its handleFormSubmit: the pattern product is there and checked
takesOverSingleAddOn(w, k) ==
  w.ctl[k].patternProductCheckbox # 0 /\ w.checked[w.ctl[k].patternProductCheckbox]

\* the item it pushes for the pattern product, or none when the variant id
\* is missing or not a number; the quantity is parseInt(entry, 10) || 1 for
\* the truthy entry of JSON.parse(sizeCountData || "{}") under the current
\* title, else 1
patternItemSingleAddOn(w, b) ==
  IF boxes[b].vid.has /\ boxes[b].vid.s # <<>> /\ ~ParseInt(boxes[b].vid.s).nan
    THEN Item(ParseInt(boxes[b].vid.s),
              IF /\ boxes[b].cmap.kind = "object"
                 /\ datasetTitle(w.curTitle[b]) # ""
                 /\ datasetTitle(w.curTitle[b]) \in DOMAIN boxes[b].cmap.obj
                 /\ Truthy(boxes[b].cmap.obj[datasetTitle(w.curTitle[b])])
                THEN OrDefault(
                       ParseIntJ(boxes[b].cmap.obj[datasetTitle(w.curTitle[b])]), 1)
                ELSE 1)
    ELSE NoItem

\* its handleFormSubmit once it has taken over: the main item comes first,
\* the pattern product's after it
handleFormSubmitSingleAddOn(w, k) ==
  IF ~form.idInput.has
    THEN [w |-> enableSubmitButton(w), outcome |-> "noVariantId", items |-> <<>>]
  ELSE IF patternItemSingleAddOn(w, w.ctl[k].patternProductCheckbox).null
    THEN [w |-> handleAddToCartError(enableSubmitButton(w),
                  "Pattern product variant not available. Please try again."),
          outcome |-> "patternUnavailable", items |-> <<>>]
  ELSE validateAndPost([w EXCEPT !.btn = [disabled |-> TRUE, loading |-> TRUE]],
         <<mainItem, patternItemSingleAddOn(w, w.ctl[k].patternProductCheckbox)>>)

\* the capture-phase listeners of the form run in order until one of them
\* takes over and stops the propagation; 0 when none takes over
RECURSIVE firstTakingOver(_, _)
firstTakingOver(w, ks) ==
  IF ks = <<>> THEN 0
  ELSE IF hasCheckedAddOn(w, Head(ks)) THEN Head(ks)
  ELSE firstTakingOver(w, Tail(ks))

Submit ==
  /\ Upgraded
  /\ inflight < MaxInFlight
  /\ \E k \in {firstTakingOver(World, formListeners)} :
       IF k = 0
         THEN /\ last' = [op |-> "submit", by |-> 0, defaultPrevented |-> FALSE,
                          outcome |-> "default", items |-> <<>>]
              /\ outbox' = <<>>
              /\ UNCHANGED <<btn, inflight>>
         ELSE \E r \in {handleFormSubmit(World, k)} :
                /\ btn' = r.w.btn
                /\ outbox' = r.w.outbox
                /\ inflight' = IF r.outcome = "posted" THEN inflight + 1 ELSE inflight
                /\ last' = [op |-> "submit", by |-> k, defaultPrevented |-> TRUE,
                            outcome |-> r.outcome, items |-> r.items]
  /\ UNCHANGED <<boxes, form, win, formBlob, torn, prop, subs, timers, checked, curTitle, countText, blob, priceText,
                 priceClass, hidden, ctl, formListeners, boxListeners, genericListeners, deferred>>

(***************************************************************************)
(* The cart-add request settles.  A response is rejected by the network,   *)
(* or carries a status (ok or not) and a body that is unparseable, the     *)
(* JSON null, or a JSON object.                                            *)
(***************************************************************************)
Resp(net, ok, body, sections, d, m, e) ==
  [net |-> net, ok |-> ok, body |-> body, sections |-> sections,
   description |-> d, message |-> m, error |-> e]

Responses ==
  { Resp("rejected", FALSE, "none", FALSE, "", "", "") }
    \cup { Resp("resolved", ok, "unparseable", FALSE, "", "", "") : ok \in BOOLEAN }
    \cup { Resp("resolved", ok, "null", FALSE, "", "", "") : ok \in BOOLEAN }
    \cup { Resp("resolved", TRUE, "object", sec, "", "", "") : sec \in BOOLEAN }
    \cup { Resp("resolved", FALSE, "object", FALSE, "D", "M", "E"),
           Resp("resolved", FALSE, "object", FALSE, "", "M", "E"),
           Resp("resolved", FALSE, "object", FALSE, "", "", "E"),
           Resp("resolved", FALSE, "object", FALSE, "", "", "") }

note(w, type) == [w EXCEPT !.outbox = Append(@, [type |-> type, on |-> "document", detail |-> ""])]

\* handleAddToCartSuccess with the refresh of the sections made in every case
handleAddToCartSuccessBoth(w, r) ==
  note(note(note(w, IF win.cartElement /\ win.getCart
                      THEN "cartElement.getCart" ELSE "theme:cart:refresh"),
            IF r.sections THEN "updateCartSections" ELSE "fetchCartSections"),
       "theme:cart:add")

\* handleAddToCartSuccess for a body that is an object
handleAddToCartSuccess(w, r) ==
  note(IF win.cartElement /\ win.getCart
         THEN note(w, "cartElement.getCart")
         ELSE note(note(w, "theme:cart:refresh"),
                   IF r.sections THEN "updateCartSections" ELSE "fetchCartSections"),
       "theme:cart:add")

\* handleAddToCartSuccess(null, formData): what runs before data.sections or
\* data.items throws
handleAddToCartSuccessNull(w) ==
  IF win.cartElement /\ win.getCart THEN note(w, "cartElement.getCart")
  ELSE note(w, "theme:cart:refresh")

\* data.description || data.message || data.error || "Failed to add to cart"
errorMessage(r) ==
  IF r.description # "" THEN r.description
  ELSE IF r.message # "" THEN r.message
  ELSE IF r.error # "" THEN r.error
  ELSE "Failed to add to cart"

\* the then/then/catch chain of handleFormSubmit
settleChain(w, r) ==
  IF r.net = "rejected" THEN handleAddToCartError(w, "Failed to fetch")
  ELSE IF r.body = "unparseable" THEN handleAddToCartError(w, "SyntaxError")
  ELSE IF ~r.ok
    THEN IF r.body = "null" THEN handleAddToCartError(w, "TypeError")
         ELSE handleAddToCartError(w, errorMessage(r))
  ELSE IF r.body = "null"
    THEN handleAddToCartError(handleAddToCartSuccessNull(w), "TypeError")
  ELSE handleAddToCartSuccess(w, r)

\* the chain without its finally step
settleNoFinally(w, r) == settleChain(w, r)

\* the chain, then finally: enableSubmitButton
settle(w, r) == enableSubmitButton(settleChain(w, r))

Settle(r) ==
  /\ inflight > 0
  /\ inflight' = inflight - 1
  /\ \E w \in {settle(World, r)} :
         /\ btn' = w.btn
         /\ outbox' = w.outbox
  /\ last' = [op |-> "settled", resp |-> r]
  /\ UNCHANGED <<boxes, form, win, formBlob, torn, prop, subs, timers, checked, curTitle, countText, blob, priceText,
                 priceClass, hidden, ctl, formListeners, boxListeners, genericListeners, deferred>>

(***************************************************************************)
(* The variant side: the host re-renders the selected-variant script, the  *)
(* controllers' variant subscription recomputes the price, and the         *)
(* VariantChangeListener stamps the variant's title on the add-ons.        *)
(***************************************************************************)
Variant(title, price) == [kind |-> "ok", title |-> title, hasPrice |-> TRUE, price |-> price]

\* no [data-selected-variant] script at that place
NoScript == [kind |-> "absent", title |-> "", hasPrice |-> FALSE, price |-> 0]
Blobs ==
  { Variant("Large", 5000), Variant("Small", 6000) }
    \cup { [kind |-> "malformed", title |-> "", hasPrice |-> FALSE, price |-> 0] }

HostRendersVariant(v) ==
  /\ Upgraded
  /\ blob # v
  /\ blob' = v
  /\ outbox' = <<>>
  /\ last' = [op |-> "render"]
  /\ UNCHANGED <<boxes, form, win, formBlob, torn, prop, subs, timers, checked, curTitle, countText, priceText,
                 priceClass, hidden, btn, ctl, formListeners,
                 boxListeners, genericListeners, inflight, deferred>>

\* the variantChange subscription of setupVariantPriceListener, for controller k
variantChangeCallback(w, k) ==
  recalculateTotalPrice(updateCurrentVariantPrice(w, k), k)

RECURSIVE RunVariantCallbacks(_, _)
RunVariantCallbacks(w, ks) ==
  IF ks = <<>> THEN w
  ELSE RunVariantCallbacks(variantChangeCallback(w, Head(ks)), Tail(ks))

\* the host publishes variantChange: the callbacks of the controllers that
\* hold a subscription run in the order in which the controllers subscribed
publishVariantChange ==
  /\ Upgraded
  /\ \E w \in {RunVariantCallbacks(World,
                  SelectSeq(formListeners,
                            LAMBDA k: ctl[k].variantChangeUnsubscriber))} :
         /\ ctl' = w.ctl
         /\ priceText' = w.priceText
         /\ priceClass' = w.priceClass
         /\ outbox' = w.outbox
         /\ last' = [op |-> "variantChange", recalcBy |-> w.recalcBy]
  /\ UNCHANGED <<boxes, form, win, formBlob, torn, prop, subs, timers, checked, curTitle, countText, blob, hidden,
                 btn, formListeners, boxListeners, genericListeners, inflight, deferred>>

\* the update that leaves the span alone when the map has no truthy entry for
\* the title
updatePatternProductCountEntryOnly(w, b) ==
  IF \/ boxes[b].cmap.kind # "object"
     \/ datasetTitle(w.curTitle[b]) \notin DOMAIN boxes[b].cmap.obj
     \/ ~Truthy(boxes[b].cmap.obj[datasetTitle(w.curTitle[b])])
    THEN w
    ELSE [w EXCEPT !.countText[b] =
            countMultiplier(boxes[b].cmap, datasetTitle(w.curTitle[b]))]

\* updatePatternProductCount of the VariantChangeListener
updatePatternProductCount(w, b) ==
  IF NoSizeCountData(boxes[b].cmap) \/ boxes[b].cmap.kind = "malformed"
    THEN w
    ELSE [w EXCEPT !.countText[b] =
            countMultiplier(boxes[b].cmap, datasetTitle(w.curTitle[b]))]

\* checkbox.dispatchEvent(new Event("change", { bubbles: true })) by the
\* VariantChangeListener: the event is noted, then the listeners run
dispatchSyntheticChange(w, b) ==
  dispatchChange([w EXCEPT !.outbox = Append(@, [type |-> "change", on |-> b,
                                                 detail |-> ""])], b)

\* the dispatch without the test of the checked state
changeAlways(w, b) == dispatchSyntheticChange(w, b)

\* if (checkbox.checked) checkbox.dispatchEvent(new Event("change"))
changeIfChecked(w, b) == IF w.checked[b] THEN dispatchSyntheticChange(w, b) ELSE w

\* the forEach of updateVariantTitleFromVariant over the add-on checkboxes
RECURSIVE stampAll(_, _, _)
stampAll(w, bs, variantTitle) ==
  IF bs = <<>> THEN w
  ELSE stampAll(
         changeIfChecked(
           updatePatternProductCount(
             [w EXCEPT !.curTitle[Head(bs)] = [has |-> TRUE, s |-> variantTitle]],
             Head(bs)),
           Head(bs)),
         Tail(bs), variantTitle)

updateVariantTitleFromVariant(title) ==
  /\ Upgraded
  /\ \E w \in {stampAll(World, BoxSeq, title)} :
         /\ curTitle' = w.curTitle
         /\ countText' = w.countText
         /\ ctl' = w.ctl
         /\ priceText' = w.priceText
         /\ priceClass' = w.priceClass
         /\ hidden' = w.hidden
         /\ outbox' = w.outbox
         /\ last' = [op |-> "stamp", title |-> title, recalcBy |-> w.recalcBy]
  /\ UNCHANGED <<boxes, form, win, formBlob, torn, prop, subs, timers, checked, blob, btn, formListeners,
                 boxListeners, genericListeners, inflight, deferred>>

(***************************************************************************)
(* The pages the model starts from.  A layout gives the add-on checkboxes  *)
(* in document order, each with its kind and its fragment: at most one     *)
(* pattern product (the first box of its fragment), at most MaxNeedles     *)
(* needles.  Every box carries the attributes the template renders for a   *)
(* well-formed add-on; a page deviates from that in at most one place, and *)
(* the pages with a deviation are those of the base layout.                *)
(***************************************************************************)
Kinds == {"pp", "needle"}

Layouts ==
  { l \in UNION { [1..n -> Kinds \X Frags] : n \in 0..(MaxNeedles + 1) } :
      /\ \A i \in DOMAIN l : i > 1 => l[i - 1][2] <= l[i][2]
      /\ Cardinality({ i \in DOMAIN l : l[i][1] = "pp" }) <= 1
      /\ Cardinality({ i \in DOMAIN l : l[i][1] = "needle" }) <= MaxNeedles
      /\ \A i \in DOMAIN l : (l[i][1] = "pp" /\ i > 1) => l[i - 1][2] < l[i][2] }

\* the pattern product in the first fragment, one needle next to it and the
\* other needles in the second fragment
BaseLayout ==
  [i \in 1..(MaxNeedles + 1) |->
     IF i = 1 THEN <<"pp", 1>> ELSE IF i = 2 THEN <<"needle", 1>> ELSE <<"needle", 2>>]

PosMap == ObjMap("Large" :> JNum(2) @@ "Small" :> JStr(<<"3">>))
NegMap == ObjMap("Large" :> JNum(0 - 2) @@ "Small" :> JNum(0))
TxtMap == ObjMap("Large" :> JStr(<<"x">>))

\* the id attributes a template can give the needles
NeedleIds == <<"needle_1", "needle_2", "needle_3", "needle_4">>

\* box i of a page: kind and fragment from the layout, attributes by default
\* or with the deviation d
Box(kf, i, d) ==
  [kind |-> kf[1], frag |-> kf[2],
   vid |-> CASE d = "vidAbsent" -> Absent
             [] d = "vidEmpty" -> Attr(<<>>)
             [] d = "vidNonNumeric" -> Attr(<<"n", "a">>)
             [] OTHER -> Attr(<<"1", DigitChar[i]>>),
   price |-> IF d = "priceZero" THEN Attr(<<"0">>)
             ELSE IF kf[1] = "pp" THEN Attr(<<"1", "2", "0", "0">>)
             ELSE Attr(<<DigitChar[i], "0", "0">>),
   cmap |-> CASE d = "mapAbsent" -> NoMap
              [] d = "mapMalformed" -> BadMap
              [] d = "mapNegative" -> NegMap
              [] d = "mapText" -> TxtMap
              [] OTHER -> PosMap,
   pid |-> IF d = "pidAbsent" THEN Absent ELSE Attr(<<"7", DigitChar[i]>>),
   mainPrice |-> Attr(<<"4", "0", "0", "0">>),
   id |-> IF kf[1] = "pp" THEN "pattern_product"
          ELSE IF d = "withId" THEN NeedleIds[i] ELSE "",
   name |-> IF kf[1] = "pp" THEN "pattern_product" ELSE "pattern_needles[]",
   value |-> "on"]

\* the page with the checkboxes bx and the page deviation what
PageWith(bx, what) ==
  /\ boxes = bx
  /\ form = [idInput |-> CASE what = "idAbsent" -> Absent
                           [] what = "idNonNumeric" -> Attr(<<"n", "a">>)
                           [] OTHER -> Attr(<<"9", "9">>),
             qtyInput |-> CASE what = "qtyAbsent" -> Absent
                            [] what = "qtyNegative" -> Attr(<<"-", "1">>)
                            [] OTHER -> Attr(<<"2">>)]
  /\ win = [formatMoney |-> CASE what = "ShopifyMoney" -> {"Shopify"}
                              [] what = "themeMoney" -> {"theme"}
                              [] what = "bothMoney" -> {"Shopify", "theme"}
                              [] OTHER -> {},
            cartElement |-> what # "noCartElement",
            getCart |-> what # "noGetCart",
            pubsub |-> what # "noPubSub"]
  /\ curTitle = [i \in DOMAIN bx |->
                   CASE what = "noTitle" -> [has |-> FALSE, s |-> ""]
                     [] what = "titleSmall" -> [has |-> TRUE, s |-> "Small"]
                     [] OTHER -> [has |-> TRUE, s |-> "Large"]]
  /\ checked = [i \in DOMAIN bx |-> FALSE]
  /\ countText = [i \in DOMAIN bx |-> 1]
  /\ boxListeners = [i \in DOMAIN bx |-> <<>>]
  /\ genericListeners = [i \in DOMAIN bx |-> <<>>]
  /\ blob = Variant("Large", 5000)
  /\ priceText = [by |-> "server", nan |-> FALSE, neg |-> FALSE, whole |-> 50, frac |-> 0]
  /\ priceClass = FALSE
  /\ hidden = <<>>
  /\ btn = [disabled |-> FALSE, loading |-> FALSE]
  /\ ctl = [k \in Frags |->
              [connected |-> FALSE, patternProductCheckbox |-> 0,
               patternNeedleCheckboxes |-> <<>>, currentVariantPrice |-> Num(0),
               checkboxes |-> <<>>, form |-> FALSE,
               variantChangeUnsubscriber |-> FALSE,
               optionChangeUnsubscriber |-> FALSE]]
  /\ formListeners = <<>>
  /\ inflight = 0
  /\ outbox = <<>>
  /\ last = [op |-> "init"]
  /\ formBlob = IF what = "formScript" THEN Variant("Small", 6000) ELSE NoScript
  /\ torn = {}
  /\ prop = [connected |-> FALSE, connects |-> 0, variantChangeUnsubscriber |-> 0,
             optionChangeUnsubscriber |-> 0]
  /\ subs = <<>>
  /\ timers = <<>>
  /\ deferred = <<>>

\* the page of layout l with deviation what at place at (0: the page itself)
Page(l, at, what) ==
  PageWith([i \in DOMAIN l |-> Box(l[i], i, IF at = i THEN what ELSE "none")], what)

Pages(boxDeviations, pageDeviations) ==
  \/ \E l \in Layouts : Page(l, 0, "none")
  \/ \E at \in DOMAIN BaseLayout : \E what \in boxDeviations : Page(BaseLayout, at, what)
  \/ \E what \in pageDeviations : Page(BaseLayout, 0, what)

(***************************************************************************)
(* Spec: the page under user input and form submission.                    *)
(***************************************************************************)
Init ==
  Pages({"vidAbsent", "vidEmpty", "vidNonNumeric", "mapNegative", "mapMalformed"},
        {"idAbsent", "idNonNumeric", "qtyAbsent", "qtyNegative", "noCartElement",
         "noGetCart", "titleSmall"})

Next ==
  \/ \E k \in Frags : connectedCallback(k)
  \/ \E b \in Boxes : Toggle(b)
  \/ Submit
  \/ \E r \in Responses : Settle(r)

Spec == Init /\ [][Next]_vars

(***************************************************************************)
(* SpecPrice: the page under user input and variant changes.               *)
(***************************************************************************)
InitPrice ==
  Pages({"mapAbsent", "mapMalformed", "mapNegative", "mapText", "pidAbsent"},
        {"ShopifyMoney", "noTitle"})

NextPrice ==
  \/ \E k \in Frags : connectedCallback(k)
  \/ \E b \in Boxes : Toggle(b)
  \/ \E v \in Blobs : HostRendersVariant(v)
  \/ publishVariantChange
  \/ \E t \in Titles : updateVariantTitleFromVariant(t)

SpecPrice == InitPrice /\ [][NextPrice]_vars

(***************************************************************************)
(* Teardown.  A fragment is removed from the document and its controller's *)
(* disconnectedCallback runs removeEventListeners.  The pages of this part *)
(* keep, behind the checkboxes of the layout, one slot per checkbox for    *)
(* the node that the checkbox is once a clone has taken its place: the     *)
(* clone then sits at the checkbox's place, and every reference to the     *)
(* original node points to the slot behind.  A node in a slot behind has   *)
(* no parent and is in no document.                                        *)
(***************************************************************************)
Live == 1..(Len(boxes) \div 2)
detachedSlot(b) == b + (Len(boxes) \div 2)

\* the node at b is in the document: it is at a place of the layout, in a
\* fragment that is still there
InDocument(b) == b \in Live /\ boxes[b].frag \notin torn

\* what removeEventListeners reads and writes
Dom ==
  [checked |-> checked, curTitle |-> curTitle, boxListeners |-> boxListeners,
   genericListeners |-> genericListeners, ctl |-> ctl]

\* form.addEventListener("submit", this.boundHandleFormSubmit, true)
submitListenerCapture == TRUE

\* EventTarget.removeEventListener(type, callback, capture): removes the
\* listener registered with that callback and that capture flag, if any
removeEventListener(listeners, k, capture) ==
  IF capture = submitListenerCapture
    THEN SelectSeq(listeners, LAMBDA j: j # k)
    ELSE listeners

\* this.form.removeEventListener("submit", this.boundHandleFormSubmit):
\* the capture flag is left to its default, false
removeSubmitListener(listeners, c, k) ==
  IF c.form THEN removeEventListener(listeners, k, FALSE) ELSE listeners

\* a reference to the node at b, once that node is replaced by its clone
moveRef(ref, b) == IF ref = b THEN detachedSlot(b) ELSE ref

\* checkbox.parentNode?.replaceChild(checkbox.cloneNode(true), checkbox): the
\* clone carries the attributes and the checked state and no listener; the
\* original keeps its listeners and whoever referred to it still does
replaceByClone(d, b) ==
  IF b \notin Live THEN d
  ELSE [d EXCEPT
          !.checked[detachedSlot(b)] = d.checked[b],
          !.curTitle[detachedSlot(b)] = d.curTitle[b],
          !.boxListeners = [@ EXCEPT ![detachedSlot(b)] = d.boxListeners[b],
                                     ![b] = <<>>],
          !.genericListeners = [@ EXCEPT ![detachedSlot(b)] = d.genericListeners[b],
                                         ![b] = <<>>],
          !.ctl = [k \in Frags |->
                     [d.ctl[k] EXCEPT
                        !.patternProductCheckbox = moveRef(@, b),
                        !.patternNeedleCheckboxes =
                           [i \in DOMAIN @ |-> moveRef(@[i], b)],
                        !.checkboxes =
                           [i \in DOMAIN @ |-> [@[i] EXCEPT !.box = moveRef(@, b)]]]]]

\* this.checkboxes.forEach(...), over the entries of the map
RECURSIVE cloneAll(_, _)
cloneAll(d, m) ==
  IF m = <<>> THEN d
  ELSE cloneAll(replaceByClone(d, Head(m).box), Tail(m))

\* the unsubscribing and the end of removeEventListeners: the map is cleared
\* and three references are set to null; patternNeedleCheckboxes is kept
clearReferences(d, k) ==
  [d EXCEPT !.ctl[k].variantChangeUnsubscriber = FALSE,
            !.ctl[k].optionChangeUnsubscriber = FALSE,
            !.ctl[k].checkboxes = <<>>,
            !.ctl[k].patternProductCheckbox = 0,
            !.ctl[k].form = FALSE]

removeEventListeners(d, k) ==
  clearReferences(cloneAll(d, d.ctl[k].checkboxes), k)

\* fragment k leaves the document
disconnectedCallback(k) ==
  /\ Upgraded
  /\ k \notin torn
  /\ torn' = torn \cup {k}
  /\ formListeners' = removeSubmitListener(formListeners, ctl[k], k)
  /\ \E d \in {removeEventListeners(Dom, k)} :
         /\ checked' = d.checked
         /\ curTitle' = d.curTitle
         /\ boxListeners' = d.boxListeners
         /\ genericListeners' = d.genericListeners
         /\ ctl' = d.ctl
  /\ outbox' = <<>>
  /\ last' = [op |-> "disconnected", by |-> k]
  /\ UNCHANGED <<boxes, form, win, formBlob, prop, subs, timers, countText, blob,
                 priceText, priceClass, hidden, btn, inflight, deferred>>

\* the boxes of a layout, each with the id the template gives it, and behind
\* them the slots of the originals
withDetachedSlots(bx) ==
  bx \o [i \in DOMAIN bx |-> [bx[i] EXCEPT !.kind = "detached"]]

InitLifecycle ==
  \E l \in Layouts : \E d \in {"none", "withId"} :
    PageWith(withDetachedSlots([i \in DOMAIN l |-> Box(l[i], i, d)]), "none")

NextLifecycle ==
  \/ \E k \in Frags : connectedCallback(k)
  \/ \E b \in Boxes : InDocument(b) /\ Toggle(b)
  \/ \E k \in Frags : disconnectedCallback(k)
  \/ Submit

SpecLifecycle == InitLifecycle /\ [][NextLifecycle]_vars

(***************************************************************************)
(* The VariantChangeListener element.  It subscribes to the host's         *)
(* variantChange and optionValueSelectionChange, and reads the selected    *)
(* variant from the document in callbacks it defers with setTimeout.       *)
(* timers holds its callbacks not yet run, in the order in which they will *)
(* run: a callback runs after those scheduled before it with a delay that  *)
(* is not longer.  subs holds the listener's subscriptions, with the       *)
(* number of calls of each one's unsubscriber.  The controllers take part  *)
(* with their change listeners and their variantChange callbacks; their    *)
(* own deferred recompute of the price is not part of this specification.  *)
(***************************************************************************)
InitialDelay == 100
SettlingDelay == 200

\* setTimeout(() => this.updateVariantTitle(), delay)
Timer(delay) == [delay |-> delay]

\* the places of the queue where a callback with that delay can come to run
timerPlaces(queue, delay) ==
  { i \in 0..Len(queue) :
      \A j \in DOMAIN queue : queue[j].delay <= delay => j <= i }

insertAt(queue, i, timer) ==
  SubSeq(queue, 1, i) \o <<timer>> \o SubSeq(queue, i + 1, Len(queue))

\* window.subscribe(channel, callback): the subscription, not yet unsubscribed
Subscription(channel) == [channel |-> channel, active |-> TRUE, calls |-> 0]

listenerSubscribed(channel) ==
  \E i \in DOMAIN subs : subs[i].channel = channel /\ subs[i].active

\* if (this.xUnsubscriber) this.xUnsubscriber()
unsubscribe(registry, unsubscriber) ==
  IF unsubscriber = 0 THEN registry
  ELSE [registry EXCEPT ![unsubscriber].active = FALSE,
                        ![unsubscriber].calls = @ + 1]

\* the event of the variantChange channel: with or without detail.variant
VariantEvent(hasVariant, title) == [hasVariant |-> hasVariant, title |-> title]
VariantEvents ==
  { VariantEvent(FALSE, "") } \cup { VariantEvent(TRUE, t) : t \in Titles \cup {""} }

\* the parse with its test of the title left out
parseAndUpdateVariantAnyTitle(w, variantScript) ==
  stampAll(w, BoxSeq, variantScript.title)

\* try { JSON.parse; if (variantData && variantData.title) ... } catch { warn }
parseAndUpdateVariant(w, variantScript) ==
  IF variantScript.kind = "ok" /\ variantScript.title # ""
    THEN stampAll(w, BoxSeq, variantScript.title)
    ELSE w

\* the lookup with product-form looked at first
updateVariantTitleFormFirst(w) ==
  IF findVariantScript(formBlob, blob).kind = "absent" THEN w
  ELSE parseAndUpdateVariant(w, findVariantScript(formBlob, blob))

updateVariantTitle(w) ==
  IF findVariantScript(blob, formBlob).kind = "absent" THEN w
  ELSE parseAndUpdateVariant(w, findVariantScript(blob, formBlob))

\* variant.title || "" is stamped when the event carries a variant
handleVariantChange(w, event) ==
  IF event.hasVariant THEN stampAll(w, BoxSeq, event.title)
  ELSE updateVariantTitle(w)

\* what a step of this part leaves in the state the handlers write
Commit(w) ==
  /\ checked' = w.checked
  /\ curTitle' = w.curTitle
  /\ countText' = w.countText
  /\ ctl' = w.ctl
  /\ priceText' = w.priceText
  /\ priceClass' = w.priceClass
  /\ hidden' = w.hidden
  /\ outbox' = w.outbox

\* the references that disconnectedCallback leaves, were they not set to null
keepUnsubscribers(p) == [p EXCEPT !.connected = FALSE]

\* this.variantChangeUnsubscriber = null; this.optionChangeUnsubscriber = null
nullUnsubscribers(p) ==
  [p EXCEPT !.connected = FALSE, !.variantChangeUnsubscriber = 0,
            !.optionChangeUnsubscriber = 0]

\* connectedCallback of the listener: setupVariantChangeListener
listenerConnectedCallback ==
  /\ Upgraded
  /\ ~prop.connected
  /\ prop.connects < MaxConnects
  /\ Len(timers) < MaxTimers
  /\ subs' = IF win.pubsub
               THEN subs \o <<Subscription("variantChange"),
                              Subscription("optionValueSelectionChange")>>
               ELSE subs
  /\ prop' = [connected |-> TRUE, connects |-> prop.connects + 1,
              variantChangeUnsubscriber |->
                IF win.pubsub THEN Len(subs) + 1 ELSE prop.variantChangeUnsubscriber,
              optionChangeUnsubscriber |->
                IF win.pubsub THEN Len(subs) + 2 ELSE prop.optionChangeUnsubscriber]
  /\ \E i \in timerPlaces(timers, InitialDelay) :
        timers' = insertAt(timers, i, Timer(InitialDelay))
  /\ outbox' = <<>>
  /\ last' = [op |-> "listenerConnected"]
  /\ UNCHANGED <<boxes, form, win, formBlob, torn, checked, curTitle, countText,
                 blob, priceText, priceClass, hidden, btn, ctl, formListeners,
                 boxListeners, genericListeners, inflight, deferred>>

\* disconnectedCallback of the listener; it can be called at any time
listenerDisconnectedCallback ==
  /\ Upgraded
  /\ subs' = unsubscribe(unsubscribe(subs, prop.variantChangeUnsubscriber),
                         prop.optionChangeUnsubscriber)
  /\ prop' = nullUnsubscribers(prop)
  /\ outbox' = <<>>
  /\ last' = [op |-> "listenerDisconnected"]
  /\ UNCHANGED <<boxes, form, win, formBlob, torn, timers, checked, curTitle,
                 countText, blob, priceText, priceClass, hidden, btn, ctl,
                 formListeners, boxListeners, genericListeners, inflight, deferred>>

\* the controllers that hold a variant subscription, in subscription order
subscribedControllers ==
  SelectSeq(formListeners, LAMBDA k: ctl[k].variantChangeUnsubscriber)

listenerHandlesVariantChange(w, event) ==
  IF listenerSubscribed("variantChange") THEN handleVariantChange(w, event) ELSE w

\* the host publishes variantChange: every subscriber's callback runs, the
\* listener's before or after the controllers'
deliverVariantChange(w, event, listenerFirst) ==
  IF listenerFirst
    THEN RunVariantCallbacks(listenerHandlesVariantChange(w, event),
                             subscribedControllers)
    ELSE listenerHandlesVariantChange(
           RunVariantCallbacks(w, subscribedControllers), event)

variantChangePublished(event) ==
  /\ Upgraded
  /\ \E listenerFirst \in BOOLEAN :
       \E w \in {deliverVariantChange(World, event, listenerFirst)} :
         /\ Commit(w)
         /\ last' = [op |-> "variantChange", recalcBy |-> w.recalcBy,
                     event |-> event,
                     delivered |-> listenerSubscribed("variantChange")]
  /\ UNCHANGED <<boxes, form, win, formBlob, torn, prop, subs, timers, blob, btn,
                 formListeners, boxListeners, genericListeners, inflight, deferred>>

\* the callback that schedules nothing
optionChangeCallbackNoDefer(queue) == queue

\* the listener's callback of optionValueSelectionChange:
\* setTimeout(() => this.updateVariantTitle(), 200)
optionChangeCallback(queue) ==
  IF listenerSubscribed("optionValueSelectionChange")
    THEN Append(queue, Timer(SettlingDelay)) ELSE queue

\* the host publishes optionValueSelectionChange
optionValueSelectionChangePublished ==
  /\ Upgraded
  /\ Len(timers) < MaxTimers
  /\ timers' = optionChangeCallback(timers)
  /\ outbox' = <<>>
  /\ last' = [op |-> "optionChange",
              delivered |-> listenerSubscribed("optionValueSelectionChange")]
  /\ UNCHANGED <<boxes, form, win, formBlob, torn, prop, subs, checked, curTitle,
                 countText, blob, priceText, priceClass, hidden, btn, ctl,
                 formListeners, boxListeners, genericListeners, inflight, deferred>>

\* the first of the deferred callbacks runs: the listener reads the document
timeout ==
  /\ Upgraded
  /\ timers # <<>>
  /\ timers' = Tail(timers)
  /\ \E w \in {updateVariantTitle(World)} :
       /\ Commit(w)
       /\ last' = [op |-> "timeout", timer |-> Head(timers), recalcBy |-> w.recalcBy]
  /\ UNCHANGED <<boxes, form, win, formBlob, torn, prop, subs, blob, btn,
                 formListeners, boxListeners, genericListeners, inflight, deferred>>

\* the pattern product in the first fragment and a needle in the second
PairLayout == << <<"pp", 1>>, <<"needle", 2>> >>

InitPropagator ==
  \E what \in {"none", "formScript", "noPubSub"} : Page(PairLayout, 0, what)

NextPropagator ==
  \/ \E k \in Frags : connectedCallback(k)
  \/ \E b \in Boxes : Toggle(b)
  \/ \E v \in Blobs \cup {NoScript} : HostRendersVariant(v)
  \/ listenerConnectedCallback
  \/ \E event \in VariantEvents : variantChangePublished(event)
  \/ optionValueSelectionChangePublished
  \/ timeout

SpecPropagator == InitPropagator /\ [][NextPropagator]_vars

(***************************************************************************)
(* SpecSubscriptions: the listener connected, torn down and connected      *)
(* again, under the host's notifications.                                  *)
(***************************************************************************)
NextSubscriptions ==
  \/ \E k \in Frags : connectedCallback(k)
  \/ listenerConnectedCallback
  \/ listenerDisconnectedCallback
  \/ \E event \in VariantEvents : variantChangePublished(event)
  \/ optionValueSelectionChangePublished
  \/ timeout

SpecSubscriptions == InitPropagator /\ [][NextSubscriptions]_vars

(***************************************************************************)
(* The controllers' subscription to optionValueSelectionChange.  Each      *)
(* controller's callback defers its recompute with setTimeout; all these   *)
(* callbacks have the same delay, so they run in the order in which they   *)
(* were scheduled, and deferred holds them in that order.                  *)
(***************************************************************************)
\* the deferred recompute without its re-read of the variant price
optionChangeRecomputeNoReRead(w, k) == recalculateWithCurrentPrice(w, k)

\* () => { this.updateCurrentVariantPrice(); this.recalculateTotalPrice(); }
optionChangeRecompute(w, k) ==
  recalculateTotalPrice(updateCurrentVariantPrice(w, k), k)

\* the controllers that hold an option subscription, in subscription order
optionSubscribers ==
  SelectSeq(formListeners, LAMBDA k: ctl[k].optionChangeUnsubscriber)

\* the host publishes optionValueSelectionChange: the callback of every
\* subscribed controller calls setTimeout(..., 200)
publishOptionValueSelectionChange ==
  /\ Upgraded
  /\ Len(deferred) + NFrag <= MaxTimers
  /\ deferred' = deferred \o optionSubscribers
  /\ outbox' = <<>>
  /\ last' = [op |-> "optionChange", scheduled |-> optionSubscribers]
  /\ UNCHANGED <<boxes, form, win, formBlob, torn, prop, subs, timers, checked,
                 curTitle, countText, blob, priceText, priceClass, hidden, btn,
                 ctl, formListeners, boxListeners, genericListeners, inflight>>

\* the first of the deferred recomputes runs
deferredRecompute ==
  /\ Upgraded
  /\ deferred # <<>>
  /\ deferred' = Tail(deferred)
  /\ \E w \in {optionChangeRecompute(World, Head(deferred))} :
         /\ ctl' = w.ctl
         /\ priceText' = w.priceText
         /\ priceClass' = w.priceClass
         /\ outbox' = w.outbox
         /\ last' = [op |-> "deferredRecompute", by |-> Head(deferred),
                     recalcBy |-> w.recalcBy]
  /\ UNCHANGED <<boxes, form, win, formBlob, torn, prop, subs, timers, checked,
                 curTitle, countText, blob, hidden, btn, formListeners,
                 boxListeners, genericListeners, inflight>>

(***************************************************************************)
(* SpecRecompute: the price under toggles, stampings, renderings of the    *)
(* variant script and the host's two notifications.                        *)
(***************************************************************************)
\* a page with a needle and no pattern product
NeedleLayout == << <<"needle", 1>> >>

InitRecompute ==
  \/ \E l \in {BaseLayout, PairLayout, NeedleLayout} : Page(l, 0, "none")
  \/ Page(PairLayout, 0, "noPubSub")

NextRecompute ==
  \/ \E k \in Frags : connectedCallback(k)
  \/ \E b \in Boxes : Toggle(b)
  \/ \E v \in Blobs \cup {NoScript} : HostRendersVariant(v)
  \/ \E t \in Titles : updateVariantTitleFromVariant(t)
  \/ publishVariantChange
  \/ publishOptionValueSelectionChange
  \/ deferredRecompute

SpecRecompute == InitRecompute /\ [][NextRecompute]_vars

(***************************************************************************)
(* SpecDisplay: the price display on pages with free items and with the    *)
(* host's money formatters.                                                *)
(***************************************************************************)
\* a variant that costs nothing
FreeVariant == Variant("Small", 0)

InitDisplay ==
  Pages({"priceZero"}, {"ShopifyMoney", "themeMoney", "bothMoney"})

NextDisplay ==
  \/ \E k \in Frags : connectedCallback(k)
  \/ \E b \in Boxes : Toggle(b)
  \/ \E v \in Blobs \cup {FreeVariant, NoScript} : HostRendersVariant(v)
  \/ publishVariantChange

SpecDisplay == InitDisplay /\ [][NextDisplay]_vars

(***************************************************************************)
(* SpecGraft: the variant-selects element of the host with the methods     *)
(* that extendVariantSelectsClass puts on its prototype, in the place of   *)
(* the VariantChangeListener.  prop is then the state of that element (its *)
(* variantTitleUpdateUnsubscriber kept in variantChangeUnsubscriber), subs *)
(* its subscriptions and timers its deferred callbacks.                    *)
(***************************************************************************)
\* the patched connectedCallback: the host's own, then
\* setupVariantTitleUpdate, which subscribes to optionValueSelectionChange
\* and schedules the initial read
selectsConnectedCallback ==
  /\ Upgraded
  /\ ~prop.connected
  /\ prop.connects < MaxConnects
  /\ Len(timers) < MaxTimers
  /\ subs' = IF win.pubsub
               THEN Append(subs, Subscription("optionValueSelectionChange"))
               ELSE subs
  /\ prop' = [prop EXCEPT !.connected = TRUE, !.connects = @ + 1,
                          !.optionChangeUnsubscriber =
                             IF win.pubsub THEN Len(subs) + 1 ELSE @]
  /\ \E i \in timerPlaces(timers, InitialDelay) :
        timers' = insertAt(timers, i, Timer(InitialDelay))
  /\ outbox' = <<>>
  /\ last' = [op |-> "selectsConnected"]
  /\ UNCHANGED <<boxes, form, win, formBlob, torn, checked, curTitle, countText,
                 blob, priceText, priceClass, hidden, btn, ctl, formListeners,
                 boxListeners, genericListeners, inflight, deferred>>

\* the patched disconnectedCallback: the two unsubscribers, when set, are
\* called and set to null, then the host's own disconnectedCallback runs
selectsDisconnectedCallback ==
  /\ Upgraded
  /\ subs' = unsubscribe(unsubscribe(subs, prop.variantChangeUnsubscriber),
                         prop.optionChangeUnsubscriber)
  /\ prop' = nullUnsubscribers(prop)
  /\ outbox' = <<>>
  /\ last' = [op |-> "selectsDisconnected"]
  /\ UNCHANGED <<boxes, form, win, formBlob, torn, timers, checked, curTitle,
                 countText, blob, priceText, priceClass, hidden, btn, ctl,
                 formListeners, boxListeners, genericListeners, inflight,
                 deferred>>

\* the updateVariantTitle put on the prototype: the script is looked up
\* inside the variant-selects element only
selectsUpdateVariantTitle(w) ==
  IF blob.kind = "absent" THEN w ELSE parseAndUpdateVariant(w, blob)

\* the first of the element's deferred callbacks runs
selectsTimeout ==
  /\ Upgraded
  /\ timers # <<>>
  /\ timers' = Tail(timers)
  /\ \E w \in {selectsUpdateVariantTitle(World)} :
       /\ Commit(w)
       /\ last' = [op |-> "timeout", timer |-> Head(timers), recalcBy |-> w.recalcBy]
  /\ UNCHANGED <<boxes, form, win, formBlob, torn, prop, subs, blob, btn,
                 formListeners, boxListeners, genericListeners, inflight, deferred>>

NextGraft ==
  \/ \E k \in Frags : connectedCallback(k)
  \/ \E v \in Blobs \cup {NoScript} : HostRendersVariant(v)
  \/ selectsConnectedCallback
  \/ selectsDisconnectedCallback
  \/ \E event \in VariantEvents : variantChangePublished(event)
  \/ optionValueSelectionChangePublished
  \/ selectsTimeout

SpecGraft == InitPropagator /\ [][NextGraft]_vars

(***************************************************************************)
(* SpecGeneric: a page with checkboxes that are no add-ons inside the      *)
(* fragments, next to the pattern product and a needle.                    *)
(***************************************************************************)
\* the pattern product, a needle, and two checkboxes that are neither: one
\* with a name in the first fragment, one with only an id in the second
InitGeneric ==
  \E d \in {"none", "withId"} : \E what \in {"none", "ShopifyMoney"} :
    PageWith(<< Box(<<"pp", 1>>, 1, "none"), Box(<<"needle", 1>>, 2, d),
                [Box(<<"generic", 1>>, 3, "none") EXCEPT
                   !.name = "gift_wrap", !.id = "", !.value = "yes"],
                [Box(<<"generic", 2>>, 4, "none") EXCEPT
                   !.name = "", !.id = "terms"] >>, what)

NextGeneric ==
  \/ \E k \in Frags : connectedCallback(k)
  \/ \E b \in Boxes : Toggle(b)
  \/ \E v \in Blobs : HostRendersVariant(v)

SpecGeneric == InitGeneric /\ [][NextGeneric]_vars

(***************************************************************************)
(* The claims.  A submission is described by last: the step was a submit,  *)
(* the controller that took it over (0: none), what it did and the items   *)
(* it built; checked and curTitle are left alone by a submit.              *)
(***************************************************************************)
Submitted == last.op = "submit"
Posted == Submitted /\ last.outcome = "posted"

\* the add-on's variant-id attribute is there and parses as a number
HasVariantId(b) ==
  boxes[b].vid.has /\ boxes[b].vid.s # <<>> /\ ~ParseInt(boxes[b].vid.s).nan

VariantIdOf(b) == ParseInt(boxes[b].vid.s)

\* the ids of a sequence of boxes and of a sequence of items
IdsOfBoxes(bs) == [i \in DOMAIN bs |-> VariantIdOf(bs[i])]
IdsOfItems(items) == [i \in DOMAIN items |-> items[i].id]

CheckedNeedlesInDocumentOrder ==
  SelectSeq(BoxSeq, LAMBDA b: IsNeedle(b) /\ checked[b] /\ HasVariantId(b))
CheckedPattern == SelectSeq(BoxSeq, LAMBDA b: IsPattern(b) /\ checked[b])

\* C1: the items of a submission that reaches the network call are the items
\* of the checked pattern needles in document order, then the item of the
\* pattern product if it is checked, then the item of the main product.
C1_ItemOrder ==
  Posted =>
    IdsOfItems(last.items) =
      IdsOfBoxes(CheckedNeedlesInDocumentOrder) \o IdsOfBoxes(CheckedPattern)
        \o <<ParseInt(form.idInput.s)>>

\* a submission posted with checked needles in two different fragments and
\* the pattern product checked: needle items, pattern item, main item
C1_Witness ==
  /\ Posted
  /\ Len(last.items) >= 4
  /\ \E a, b \in Boxes :
       /\ IsNeedle(a) /\ IsNeedle(b) /\ checked[a] /\ checked[b]
       /\ boxes[a].frag # boxes[b].frag
  /\ \E p \in Boxes : IsPattern(p) /\ checked[p]

\* C2: a submission taken over while a checked add-on lacks a numeric variant
\* id issues no POST, surfaces an error and leaves the submit control enabled.
C2_AbortOnMissingVariantId ==
  (Submitted /\ last.defaultPrevented
     /\ \E b \in Boxes : checked[b] /\ ~HasVariantId(b))
    => /\ last.outcome # "posted"
       /\ \E i \in DOMAIN outbox : outbox[i].type = "theme:cart:add:error"
       /\ ~btn.disabled

\* the step recomputed the price; last.recalcBy is the controller that wrote
\* the price display last
Recomputed ==
  last.op \in {"change", "variantChange", "stamp"} /\ last.recalcBy # 0

\* base price x multiplier for the box's current variant title
Contribution(b) ==
  Mul(IF boxes[b].price.has /\ boxes[b].price.s # <<>>
        THEN ParseFloat(boxes[b].price.s) ELSE Num(0),
      Num(countMultiplier(boxes[b].cmap, datasetTitle(curTitle[b]))))

RECURSIVE SumOfContributions(_)
SumOfContributions(S) ==
  IF S = {} THEN Num(0)
  ELSE LET b == CHOOSE x \in S : TRUE
       IN  Add(Contribution(b), SumOfContributions(S \ {b}))

\* C3: after a price recompute the price display shows the current variant
\* price (the price of the selected-variant script when that parses) plus the
\* sum of base price x multiplier over exactly the add-ons of the page that
\* are checked.
C3_TotalPrice ==
  Recomputed =>
    /\ priceText =
         formatPrice(Add(ctl[last.recalcBy].currentVariantPrice,
                         SumOfContributions({b \in Boxes : checked[b]})))
    /\ blob.kind = "ok" => ctl[last.recalcBy].currentVariantPrice = Num(blob.price)

\* variant price 5000, the pattern product (base 1200, 2 for "Large") the one
\* checked add-on, after another add-on was checked and unchecked: $74.00
C3_Witness ==
  /\ Recomputed
  /\ last.op = "change" /\ IsNeedle(last.box) /\ ~checked[last.box]
  /\ \E p \in Boxes : IsPattern(p) /\ checked[p] /\ curTitle[p] = [has |-> TRUE, s |-> "Large"]
  /\ \A b \in Boxes : checked[b] => IsPattern(b)
  /\ blob = Variant("Large", 5000)
  /\ priceText = [by |-> "fallback", nan |-> FALSE, neg |-> FALSE, whole |-> 74, frac |-> 0]

\* C4: the multiplier of an add-on, as reported with its change event and as
\* the quantity of its submitted item, is a positive integer.
C4_MultiplierPositive ==
  /\ \A i \in DOMAIN outbox :
       outbox[i].type = "product:pattern:change" => outbox[i].detail.countMultiplier >= 1
  /\ (Submitted /\ last.outcome \in {"posted", "invalidItems"}) =>
       \A i \in 1..(Len(last.items) - 1) : last.items[i].quantity >= 1

AnyAddOnChecked == \E b \in Boxes : checked[b]

\* C5: a submit is taken over (default prevented, propagation stopped) exactly
\* when some add-on checkbox is checked; otherwise the step changes nothing:
\* the submit control, the requests in flight and the page are as before and
\* nothing is broadcast.
C5_TakeOverIffChecked ==
  [][Submit =>
       /\ last'.defaultPrevented <=> AnyAddOnChecked
       /\ ~AnyAddOnChecked =>
            /\ UNCHANGED <<btn, inflight, checked, hidden, priceText, priceClass,
                           ctl, countText, curTitle>>
            /\ outbox' = <<>> /\ last'.outcome = "default"
       /\ AnyAddOnChecked =>
            (last'.outcome = "posted" => btn'.disabled /\ inflight' = inflight + 1)]_vars

\* a submit left to the default path while the control is still disabled by
\* a request in flight
C5_Witness ==
  Submitted /\ ~last.defaultPrevented /\ ~AnyAddOnChecked /\ btn.disabled /\ inflight > 0

ValidItem(item) == ~item.null /\ ~item.id.nan /\ item.id.v # 0 /\ item.quantity >= 1

\* C6: the items of a POST all have a numeric, non-zero id and a quantity of at
\* least 1; a submission with an invalid built item is aborted before the
\* network call and leaves the submit control enabled.
C6_OnlyValidItemsPosted ==
  /\ Posted => \A i \in DOMAIN last.items : ValidItem(last.items[i])
  /\ (Submitted /\ \E i \in DOMAIN last.items : ~ValidItem(last.items[i])) =>
       last.outcome = "invalidItems" /\ ~btn.disabled /\ ~btn.loading

\* a submission aborted on an add-on item that was built with a quantity
\* that is not positive
C6_Witness ==
  /\ Submitted /\ last.outcome = "invalidItems" /\ ~btn.disabled
  /\ Len(last.items) >= 2
  /\ ~ValidItem(last.items[1])

Settled == last.op = "settled"
Enabled == ~btn.disabled /\ ~btn.loading

\* C7: a submission that was taken over leaves the submit control enabled
\* when it ends: at once on each abort before the network call, and when its
\* request settles, however it settles.
C7_ControlReEnabled ==
  /\ (Submitted /\ last.outcome \in {"noVariantId", "patternUnavailable", "invalidItems"})
       => Enabled
  /\ Settled => Enabled

\* a request settled with a success status and a body on which the success
\* handler throws, and the control is enabled
C7_Witness ==
  /\ Settled /\ last.resp.net = "resolved" /\ last.resp.ok /\ last.resp.body = "null"
  /\ Enabled /\ inflight = 0

\* the outcome notifications among the broadcasts of the step
Outcomes ==
  SelectSeq(outbox, LAMBDA n: n.type \in {"theme:cart:add", "theme:cart:add:error"})

\* C8: a POST that settles broadcasts exactly one outcome notification:
\* theme:cart:add when the response has a success status, theme:cart:add:error
\* otherwise.
C8_OneOutcomeNotification ==
  Settled =>
    /\ Len(Outcomes) = 1
    /\ Outcomes[1].type =
         IF last.resp.net = "resolved" /\ last.resp.ok
           THEN "theme:cart:add" ELSE "theme:cart:add:error"

\* the number a string of decimal digits, with an optional minus sign, denotes
AllDigits(s) == s # <<>> /\ \A i \in DOMAIN s : IsDigit(s[i])
IsInteger(s) == AllDigits(s) \/ (Len(s) > 1 /\ s[1] = "-" /\ AllDigits(Tail(s)))

RECURSIVE DigitsValue(_)
DigitsValue(s) ==
  IF s = <<>> THEN 0 ELSE 10 * DigitsValue(SubSeq(s, 1, Len(s) - 1)) + DigitVal(s[Len(s)])

IntegerValue(s) == IF s[1] = "-" THEN 0 - DigitsValue(Tail(s)) ELSE DigitsValue(s)

\* the effective quantity of an add-on: the positive integer its map gives for
\* its current variant title, else 1
ExpectedQuantity(b) ==
  LET t == datasetTitle(curTitle[b])
      m == boxes[b].cmap
  IN  IF m.kind = "object" /\ t \in DOMAIN m.obj
        THEN LET e == m.obj[t]
                 n == IF e.t = "num" THEN e.n
                      ELSE IF IsInteger(e.s) THEN IntegerValue(e.s) ELSE 0
             IN  IF n >= 1 THEN n ELSE 1
        ELSE 1

ExpectedItem(b) ==
  Item(IF AllDigits(boxes[b].vid.s) THEN Num(DigitsValue(boxes[b].vid.s)) ELSE NaN,
       ExpectedQuantity(b))

\* the main item: the id field's number and the quantity field's (1 when that
\* field is missing)
ExpectedMainItem ==
  Item(IF AllDigits(form.idInput.s) THEN Num(DigitsValue(form.idInput.s)) ELSE NaN,
       IF form.qtyInput.has /\ IsInteger(form.qtyInput.s)
         THEN IntegerValue(form.qtyInput.s) ELSE 1)

\* C9: when every checked add-on has a numeric variant id, the items a
\* submission posts are one item per checked add-on (its variant id, its
\* effective quantity), none for an unchecked one, and the main item from the
\* form's fields.
C9_OneItemPerCheckedAddOn ==
  (Posted /\ \A b \in Boxes : checked[b] => boxes[b].vid.has /\ AllDigits(boxes[b].vid.s))
    => /\ Len(last.items) = Cardinality({b \in Boxes : checked[b]}) + 1
       /\ \A b \in Boxes :
            checked[b] <=>
              \E i \in 1..(Len(last.items) - 1) : last.items[i] = ExpectedItem(b)
       /\ last.items[Len(last.items)] = ExpectedMainItem

\* the two needles checked, the pattern product not: three items posted
C9_Witness ==
  /\ Posted
  /\ \E a, b \in Boxes : a # b /\ IsNeedle(a) /\ IsNeedle(b) /\ checked[a] /\ checked[b]
  /\ \A p \in Boxes : IsPattern(p) => ~checked[p]
  /\ \E p \in Boxes : IsPattern(p)
  /\ Len(last.items) = 3

\* C10: the form holds a pattern_product_id field exactly when the pattern
\* product is checked and has a product id; the field is single, carries that
\* product id, and no toggle of a needle creates, overwrites or removes it.
C10_HiddenFieldFollowsPattern ==
  Upgraded =>
    /\ Len(hidden) <= 1
    /\ hidden # <<>> <=>
         \E p \in Boxes : IsPattern(p) /\ checked[p] /\ boxes[p].pid.has
    /\ \A p \in Boxes :
         (IsPattern(p) /\ checked[p] /\ boxes[p].pid.has) => hidden = <<boxes[p].pid.s>>

(***************************************************************************)
(* Teardown of the controller.                                             *)
(***************************************************************************)
\* C11: once a controller is torn down, its submit handler is no longer
\* registered on the form: no later submit is taken over by that controller.
C11_NoInterceptAfterTeardown ==
  Submitted => last.by \notin torn

\* controller k's change handler is among the change listeners of the node at b
ListensTo(k, b) == \E i \in DOMAIN boxListeners[b] : boxListeners[b][i] = k

\* C12: once a controller is torn down, every checkbox it managed is replaced
\* by a clone without listeners, whatever the ids and names, and its map and
\* references are cleared: no change event on an add-on checkbox of the
\* document invokes that controller's change handler.
C12_NoChangeHandlerAfterTeardown ==
  \A k \in torn :
    /\ ctl[k].checkboxes = <<>>
    /\ \A b \in Boxes : InDocument(b) => ~ListensTo(k, b)

(***************************************************************************)
(* The propagation of the variant title.                                   *)
(***************************************************************************)
\* the number of synthetic change events the step dispatched on box b
ChangeEventsOn(ob, b) ==
  Len(SelectSeq(ob, LAMBDA n: n.type = "change" /\ n.on = b))

\* C13: a stamping of a variant title writes the title to every add-on
\* checkbox of the document, pattern product and needles alike, dispatches a
\* change event on exactly the checked ones, and modifies no checked state.
C13_StampAllChangeChecked ==
  [][ last'.op = "stamp" =>
        /\ checked' = checked
        /\ \A b \in Boxes :
             /\ curTitle'[b] = [has |-> TRUE, s |-> last'.title]
             /\ ChangeEventsOn(outbox', b) = IF checked[b] THEN 1 ELSE 0 ]_vars

\* a title other than the one the boxes carried is stamped on a page with the
\* pattern product checked, a needle checked and a needle not checked
C13_Witness ==
  /\ last.op = "stamp"
  /\ last.title = "Small"
  /\ \E p, a, b \in Boxes :
       /\ IsPattern(p) /\ IsNeedle(a) /\ IsNeedle(b)
       /\ checked[p] /\ checked[a] /\ ~checked[b]
       /\ ChangeEventsOn(outbox, p) = 1 /\ ChangeEventsOn(outbox, b) = 0

\* the script a read of the document finds: the one inside variant-selects
\* when there is one, else the one inside product-form
ScriptRead == IF blob.kind # "absent" THEN blob ELSE formBlob

\* the step is a read of the document by the listener: a deferred read that
\* runs, or the handling of a variantChange event that carries no variant
ReadsDocument ==
  \/ last'.op = "timeout"
  \/ last'.op = "variantChange" /\ last'.delivered /\ ~last'.event.hasVariant

NoChangeEvent(ob) == \A b \in Boxes : ChangeEventsOn(ob, b) = 0

\* C14: a read of the document that finds no variant script, or one that
\* does not parse, has no effect: every add-on keeps its title, no count is
\* rewritten and no change event is dispatched.
C14_BadScriptNoEffect ==
  [][ (ReadsDocument /\ ScriptRead.kind \in {"absent", "malformed"}) =>
        /\ curTitle' = curTitle
        /\ countText' = countText
        /\ NoChangeEvent(outbox') ]_vars

\* a deferred read has just run on a page whose script does not parse and
\* whose pattern product is checked
C14_Witness ==
  /\ last.op = "timeout"
  /\ ScriptRead.kind = "malformed"
  /\ \E p \in Boxes : IsPattern(p) /\ checked[p]
  /\ \A b \in Boxes : curTitle[b] = [has |-> TRUE, s |-> "Large"]

Stamped(ct, title) == \A b \in Boxes : ct[b] = [has |-> TRUE, s |-> title]

\* C15: on a variantChange notification the listener stamps the title of the
\* variant the notification carries, whatever the document says; when the
\* notification carries none it reads the document: the script inside
\* variant-selects when there is one, the one inside product-form only when
\* there is none.
C15_VariantSourceOrder ==
  [][ (last'.op = "variantChange" /\ last'.delivered) =>
        IF last'.event.hasVariant
          THEN Stamped(curTitle', last'.event.title)
        ELSE IF ScriptRead.kind = "ok"
          THEN Stamped(curTitle', ScriptRead.title)
          ELSE curTitle' = curTitle ]_vars

\* a notification without variant on a page with no script inside
\* variant-selects and one inside product-form: that one's title is stamped
C15_Witness ==
  /\ last.op = "variantChange" /\ last.delivered /\ ~last.event.hasVariant
  /\ blob.kind = "absent" /\ formBlob.kind = "ok"
  /\ Stamped(curTitle, formBlob.title)

\* the step leaves the add-ons as they were
AddOnsUntouched ==
  curTitle' = curTitle /\ countText' = countText /\ NoChangeEvent(outbox')

\* the number of pending deferred reads with that delay
Pending(queue, delay) == Cardinality({ i \in DOMAIN queue : queue[i].delay = delay })

\* C16: an option-change notification never reads the document in the
\* notification itself: it schedules exactly one deferred read, with the
\* settling delay, behind the reads already pending; a connection schedules
\* exactly one initial deferred read; a deferred read stays pending until it
\* runs, the oldest first, and what it stamps is the script the document
\* holds when it runs.
C16_DeferredRead ==
  [][ /\ (last'.op = "optionChange" /\ last'.delivered) =>
           /\ AddOnsUntouched
           /\ timers' = Append(timers, [delay |-> SettlingDelay])
      /\ last'.op = "listenerConnected" =>
           /\ AddOnsUntouched
           /\ Len(timers') = Len(timers) + 1
           /\ Pending(timers', InitialDelay) = Pending(timers, InitialDelay) + 1
      /\ last'.op = "render" => AddOnsUntouched /\ timers' = timers
      /\ Len(timers') < Len(timers) =>
           /\ last'.op = "timeout"
           /\ timers' = Tail(timers)
      /\ (last'.op = "timeout" /\ ScriptRead.kind = "ok") =>
           Stamped(curTitle', ScriptRead.title) ]_vars

\* the deferred read of an option-change notification is pending and the
\* host has just rendered a script whose title the add-ons do not carry yet
C16_Witness ==
  /\ last.op = "render"
  /\ timers # <<>> /\ timers[1].delay = SettlingDelay
  /\ blob.kind = "ok" /\ ~Stamped(curTitle, blob.title)
  /\ \E b \in Boxes : checked[b]

\* C17: a teardown of the listener leaves it without active subscription and
\* without unsubscriber; no unsubscriber is ever called twice, however often
\* the teardown is called; a teardown that follows a teardown changes
\* nothing, and so does one on a listener that never subscribed.
C17_TeardownIdempotent ==
  [][ /\ \A i \in DOMAIN subs' : subs'[i].calls <= 1
      /\ last'.op = "listenerDisconnected" =>
           /\ \A i \in DOMAIN subs' : ~subs'[i].active /\ subs'[i].calls = 1
           /\ prop'.variantChangeUnsubscriber = 0
           /\ prop'.optionChangeUnsubscriber = 0
           /\ (last.op = "listenerDisconnected" \/ prop.variantChangeUnsubscriber = 0)
                => subs' = subs /\ prop'.connects = prop.connects ]_vars

\* the listener was connected twice and torn down after each connection:
\* four subscriptions, each unsubscribed by one call
C17_Witness ==
  /\ last.op = "listenerDisconnected"
  /\ Len(subs) = 4
  /\ \A i \in DOMAIN subs : ~subs[i].active /\ subs[i].calls = 1

(***************************************************************************)
(* The outcome of a submission, again.                                     *)
(***************************************************************************)
\* the broadcasts of the step of that type
Broadcasts(type) == SelectSeq(outbox, LAMBDA n: n.type = type)

\* C18: a submission taken over on a form without main variant-id field
\* issues no POST, leaves the submit control enabled, and surfaces an error:
\* the inline error region is filled or the add-failed notification is
\* broadcast.
C18_MissingIdFieldSurfaced ==
  (Submitted /\ last.defaultPrevented /\ ~form.idInput.has) =>
    /\ last.outcome # "posted"
    /\ Enabled
    /\ \/ Broadcasts("errorContainer.textContent") # <<>>
       \/ Broadcasts("theme:cart:add:error") # <<>>

\* the message the claim derives from the body: a field that is not there
\* counts as empty
FirstOf(description, message, error) ==
  IF description # "" THEN description
  ELSE IF message # "" THEN message
  ELSE IF error # "" THEN error
  ELSE "Failed to add to cart"

\* C19: a response with a non-success status never runs the success handler
\* and broadcasts one add-failed notification, whose error message is the
\* body's description, else its message, else its error, else the generic
\* text.
C19_ErrorMessageChain ==
  (Settled /\ last.resp.net = "resolved" /\ ~last.resp.ok) =>
    /\ Broadcasts("theme:cart:add") = <<>>
    /\ Broadcasts("cartElement.getCart") = <<>>
    /\ Broadcasts("theme:cart:refresh") = <<>>
    /\ Len(Broadcasts("theme:cart:add:error")) = 1
    /\ Broadcasts("theme:cart:add:error")[1].detail =
         FirstOf(last.resp.description, last.resp.message, last.resp.error)

\* the success handler has run to its end
Succeeded ==
  /\ Settled
  /\ last.resp.net = "resolved" /\ last.resp.ok /\ last.resp.body = "object"

\* C20: a successful POST refreshes the cart in one way only: by the cart
\* element's getCart alone when the page has a cart element with that
\* method; otherwise by the refresh notification, with the sections of the
\* response spliced when it has some and the sections URL fetched again only
\* when it has none.  No response at all gets both ways.
C20_OneRefreshStrategy ==
  /\ Settled =>
       /\ Len(Broadcasts("cartElement.getCart")) + Len(Broadcasts("theme:cart:refresh")) <= 1
       /\ Len(Broadcasts("updateCartSections")) + Len(Broadcasts("fetchCartSections")) <= 1
       /\ Broadcasts("cartElement.getCart") # <<>> =>
            /\ win.cartElement /\ win.getCart
            /\ Broadcasts("updateCartSections") = <<>>
            /\ Broadcasts("fetchCartSections") = <<>>
  /\ Succeeded =>
       IF win.cartElement /\ win.getCart
         THEN /\ Len(Broadcasts("cartElement.getCart")) = 1
              /\ Broadcasts("theme:cart:refresh") = <<>>
         ELSE /\ Len(Broadcasts("theme:cart:refresh")) = 1
              /\ Len(Broadcasts("updateCartSections")) = IF last.resp.sections THEN 1 ELSE 0
              /\ Len(Broadcasts("fetchCartSections")) = IF last.resp.sections THEN 0 ELSE 1

\* a success on a page whose cart element has no getCart method, with a
\* response that carries no sections: the notification and the fetch
C20_Witness ==
  /\ Succeeded
  /\ win.cartElement /\ ~win.getCart
  /\ ~last.resp.sections
  /\ Len(Broadcasts("fetchCartSections")) = 1

(***************************************************************************)
(* The title between the propagator and the controller.                    *)
(***************************************************************************)
\* the step stamped the title of the variant a notification carried
StampedFromEvent ==
  last.op = "variantChange" /\ last.delivered /\ last.event.hasVariant

\* C21: right after the propagator stamps a title on the add-on checkboxes,
\* the title the controller reads back from each of them is that string, and
\* that string is the key of the quantity map: for the multiplier of the
\* price, for the multiplier a change notification reports and for the
\* quantity of the item a submission would build.
C21_TitleRoundTrip ==
  StampedFromEvent =>
    /\ \A b \in Boxes :
         /\ datasetTitle(curTitle[b]) = last.event.title
         /\ getCheckboxPrice(World, b) =
              Mul(getCheckboxPriceBase(World, b),
                  Num(countMultiplier(boxes[b].cmap, last.event.title)))
         /\ ~buildPatternProductItem(World, b).null =>
              buildPatternProductItem(World, b).quantity =
                patternQuantity(boxes[b].cmap, last.event.title)
    /\ \A i \in DOMAIN outbox :
         outbox[i].type = "product:pattern:change" =>
           /\ outbox[i].detail.currentVariantTitle = last.event.title
           /\ \E b \in Boxes :
                /\ checked[b]
                /\ outbox[i].detail.patternProductId = boxes[b].pid
                /\ outbox[i].detail.countMultiplier =
                     countMultiplier(boxes[b].cmap, last.event.title)

\* the title "Small" has just been stamped on add-ons that carried "Large",
\* with an add-on checked: its notification reports the multiplier 3 that the
\* map gives for "Small"
C21_Witness ==
  /\ StampedFromEvent
  /\ last.event.title = "Small"
  /\ \E b \in Boxes : checked[b] /\ curTitle[b] = [has |-> TRUE, s |-> "Small"]
  /\ \E i \in DOMAIN outbox :
       /\ outbox[i].type = "product:pattern:change"
       /\ outbox[i].detail.countMultiplier = 3

(***************************************************************************)
(* Submissions while a request is in flight.                               *)
(***************************************************************************)
\* C22: a submit event that reaches the form right after a submission was
\* posted, the submit control still disabled and the request still in flight,
\* is handled as the first one was: the same controller posts the same items
\* again, and one more request is in flight.
C22_SecondSubmitPostsAgain ==
  [][ (Posted /\ Submit) =>
        /\ btn.disabled /\ inflight >= 1
        /\ last'.outcome = "posted"
        /\ last'.by = last.by
        /\ last'.items = last.items
        /\ inflight' = inflight + 1 ]_vars

\* two cart-add requests of one controller are in flight
C22_Witness ==
  /\ Posted
  /\ inflight = 2
  /\ btn.disabled
  /\ last.by = formListeners[1]

\* C23: whenever a cart-add request of the controller is in flight, the
\* submit control is disabled.
C23_DisabledWhileInFlight ==
  inflight > 0 => btn.disabled

\* the add-on at b has what a valid item needs: a numeric, non-zero variant
\* id and a positive quantity for its current title
WiredAddOn(b) ==
  /\ HasVariantId(b) /\ VariantIdOf(b).v # 0
  /\ patternQuantity(boxes[b].cmap, datasetTitle(curTitle[b])) >= 1

\* the form's fields give a valid main item
WiredForm ==
  /\ form.idInput.has /\ ~ParseInt(form.idInput.s).nan /\ ParseInt(form.idInput.s).v # 0
  /\ form.qtyInput.has => OrDefault(ParseInt(form.qtyInput.s), 1) >= 1

\* the places of the add-on at b among the items in front of the main item
PlacesOf(items, b) ==
  { i \in 1..(Len(items) - 1) : items[i].id = VariantIdOf(b) }

\* C25: one submit event on a form with a checked add-on and only valid
\* items is taken over by one controller and gives one POST, however many
\* fragments are connected: one more request in flight, and in its items
\* each checked add-on once, then the main item.
C25_OnePostPerSubmit ==
  [][ (Submit /\ AnyAddOnChecked /\ WiredForm
         /\ \A b \in Boxes : checked[b] => WiredAddOn(b)) =>
        /\ last'.defaultPrevented
        /\ last'.outcome = "posted"
        /\ inflight' = inflight + 1
        /\ Len(last'.items) = Cardinality({b \in Boxes : checked[b]}) + 1
        /\ \A b \in Boxes :
             Cardinality(PlacesOf(last'.items, b)) = IF checked[b] THEN 1 ELSE 0 ]_vars

\* a first submission posted on a page with two connected fragments, each
\* with a checked needle of its own
C25_Witness ==
  /\ Posted
  /\ inflight = 1
  /\ Len(formListeners) = 2
  /\ \E a, b \in Boxes :
       /\ IsNeedle(a) /\ IsNeedle(b) /\ checked[a] /\ checked[b]
       /\ boxes[a].frag = 1 /\ boxes[b].frag = 2
  /\ Len(last.items) = Cardinality({b \in Boxes : checked[b]}) + 1

(***************************************************************************)
(* The recompute of the price.                                             *)
(***************************************************************************)
\* the step ran a recompute; last.recalcBy is the controller whose recompute
\* wrote the price display last
RecomputeStep ==
  /\ last.op \in {"change", "stamp", "variantChange", "deferredRecompute"}
  /\ last.recalcBy # 0

\* the price the last writer holds for the variant
WriterVariantPrice == ctl[last.recalcBy].currentVariantPrice

\* the total of the page as it is: that variant price plus the contributions
\* of the add-ons checked now, each under the title it carries now
TotalOfPage ==
  Add(WriterVariantPrice, SumOfContributions({b \in Boxes : checked[b]}))

\* data-main-product-price of the pattern product
MainProductPriceAttribute(p) == ParseFloat(boxes[p].mainPrice.s)

\* C24: whatever toggles, stampings and notifications came before, in
\* whatever order their recomputes and deferred recomputes ran, the recompute
\* that ran last leaves the display at the total of the page as it is then:
\* the price of the variant script (the main-product-price attribute when
\* there is no script that parses) plus the contributions of the add-ons
\* checked now under their current titles; so it is once nothing is pending.
C24_LastWriteWins ==
  RecomputeStep =>
    /\ priceText = formatPrice(TotalOfPage)
    /\ ScriptRead.kind = "ok" => WriterVariantPrice = Num(ScriptRead.price)
    /\ \A p \in Boxes :
         (IsPattern(p) /\ ScriptRead.kind # "ok") =>
            WriterVariantPrice = MainProductPriceAttribute(p)

\* the second controller's deferred recompute has run last and nothing is
\* pending, on a page where the variant "Small" was rendered and stamped
\* with the pattern product checked: $60.00 + 3 x $12.00
C24_Witness ==
  /\ last.op = "deferredRecompute" /\ last.by = 2
  /\ deferred = <<>>
  /\ blob = Variant("Small", 6000)
  /\ \E p \in Boxes :
       /\ IsPattern(p) /\ checked[p] /\ curTitle[p] = [has |-> TRUE, s |-> "Small"]
       /\ \A b \in Boxes : checked[b] => b = p
  /\ priceText = [by |-> "fallback", nan |-> FALSE, neg |-> FALSE, whole |-> 96, frac |-> 0]

\* the formatter the claim gives the page: Shopify's when there is one, else
\* the theme's when there is one, else the built-in one
FormatterOfPage ==
  IF "Shopify" \in win.formatMoney THEN "Shopify"
  ELSE IF "theme" \in win.formatMoney THEN "theme"
  ELSE "fallback"

\* C26: the price a recompute writes is formatted by Shopify.formatMoney
\* when the page has it, the theme's being there or not, else by
\* theme.formatMoney when the page has it, else by the built-in formatter:
\* the cents divided by 100 with two decimals.  The host's formatter is
\* handed the total in cents.  The display is written by every recompute.
C26_FormatterPriority ==
  RecomputeStep =>
    /\ priceText.by = FormatterOfPage
    /\ priceText.by \in {"Shopify", "theme"} =>
         priceText.whole = TotalOfPage.v /\ priceText.nan = TotalOfPage.nan
    /\ (priceText.by = "fallback" /\ ~TotalOfPage.nan) =>
         /\ ~priceText.nan
         /\ priceText.frac \in 0..99
         /\ priceText.neg = (TotalOfPage.v < 0)
         /\ 100 * priceText.whole + priceText.frac =
              IF TotalOfPage.v < 0 THEN 0 - TotalOfPage.v ELSE TotalOfPage.v

\* a recompute on a page that has both Shopify.formatMoney and
\* theme.formatMoney: the display is Shopify's rendering of 5000 + 2 x 1200
C26_Witness ==
  /\ RecomputeStep
  /\ win.formatMoney = {"Shopify", "theme"}
  /\ priceText.by = "Shopify" /\ priceText.whole = 7400

\* the step leaves the price as it was: nothing read again, nothing written
PriceUntouched ==
  priceText' = priceText /\ priceClass' = priceClass /\ ctl' = ctl

\* C27: every change event of a managed checkbox runs a recompute; a
\* notification of either kind runs none in its callback: it leaves the
\* price as it was, and the recompute it triggers runs later, as a deferred
\* step.
C27_NotificationsDeferRecompute ==
  [][ /\ last'.op = "change" => last'.recalcBy # 0
      /\ last'.op = "optionChange" =>
           /\ PriceUntouched
           /\ deferred' = deferred \o last'.scheduled
      /\ last'.op = "variantChange" =>
           /\ PriceUntouched
           /\ last'.recalcBy = 0 ]_vars

\* C28: the variant price a recompute uses is the price of the variant
\* script the page holds then, whatever that price, 0 included, when the
\* script is there and parses; it is the main-product-price attribute of the
\* pattern product when the script is absent or does not parse.
C28_VariantPriceFromScript ==
  RecomputeStep =>
    IF ScriptRead.kind = "ok"
      THEN WriterVariantPrice = Num(ScriptRead.price)
      ELSE \A p \in Boxes :
             IsPattern(p) => WriterVariantPrice = MainProductPriceAttribute(p)

\* C29: after a recompute the price display shows the formatted total and
\* carries the class price--with-pattern-product exactly when some add-on
\* checkbox is checked, whatever the add-ons' base prices.
C29_ClassIffAddOnChecked ==
  RecomputeStep =>
    /\ priceText = formatPrice(TotalOfPage)
    /\ priceClass <=> AnyAddOnChecked

\* the product:pattern:change notifications the step broadcast on the document
PatternChanges ==
  SelectSeq(outbox, LAMBDA n: n.type = "product:pattern:change" /\ n.on = "document")

\* C30: every step that recomputes the price, for a change event or for a
\* notification, broadcasts product:pattern:change, and the totalPrice of
\* the last one broadcast is the total the display shows.
C30_RecomputeBroadcastsChange ==
  RecomputeStep =>
    /\ PatternChanges # <<>>
    /\ formatPrice(PatternChanges[Len(PatternChanges)].detail.totalPrice) = priceText

(***************************************************************************)
(* A variant without title, on the two paths that reach the listener.      *)
(***************************************************************************)
\* what a read of a variant with that title leaves on the add-ons, when an
\* empty title stamps nothing
TitleOrKept(title) ==
  IF title = "" THEN curTitle' = curTitle ELSE Stamped(curTitle', title)

\* C38: the title stamped for a variant is the same whether the variant
\* comes in a variantChange notification or is read from the script in the
\* document; a variant whose title is empty or missing leaves
\* data-current-variant-title of every add-on as it was, on both paths.
C38_EmptyTitleNeverStamped ==
  [][ /\ (last'.op = "variantChange" /\ last'.delivered
            /\ last'.event.hasVariant) => TitleOrKept(last'.event.title)
      /\ (last'.op = "timeout" /\ ScriptRead.kind = "ok") =>
           TitleOrKept(ScriptRead.title) ]_vars

(***************************************************************************)
(* The listener's timers and its teardown.                                 *)
(***************************************************************************)
\* C37: once the listener is torn down it stamps no add-on and fires no
\* synthetic change any more: a deferred read that was scheduled before the
\* teardown, the initial one or the one of an option change, leaves the
\* add-ons as they are when its timer runs out after the teardown.
C37_NoReadAfterTeardown ==
  [][ (last'.op = "timeout" /\ ~prop.connected) => AddOnsUntouched ]_vars

(***************************************************************************)
(* The totals computed while the listener stamps the add-ons in turn.      *)
(***************************************************************************)
\* C35: every product:pattern:change notification of a stamping reports, and
\* every price the stamping displays is, the total of the state in which all
\* add-on checkboxes carry the stamped title: none is computed from add-ons
\* of which some carry the former title and some the new one.
C35_NoMixedTitleTotal ==
  last.op = "stamp" =>
    \A i \in DOMAIN outbox :
      outbox[i].type = "product:pattern:change" =>
        outbox[i].detail.totalPrice = getCalculatedTotalPrice(World, outbox[i].by)

(***************************************************************************)
(* The count shown next to an add-on.                                      *)
(***************************************************************************)
\* the box's map gives nothing for that title: it is absent, empty or
\* malformed, or an object without a truthy entry under the title
NoEntryFor(b, title) ==
  \/ boxes[b].cmap.kind # "object"
  \/ title \notin DOMAIN boxes[b].cmap.obj
  \/ ~Truthy(boxes[b].cmap.obj[title])

PlaceOf(r) == IF r \in Live THEN r ELSE r - (Len(boxes) \div 2)

\* C36: with two fragments connected on the same form, the teardown of one
\* leaves the other's controller working: for every checkbox it manages that
\* is still in the document, its reference is the node that is in the
\* document and its change handler listens on that node; and when it takes
\* over a submit, some checkbox of the document is checked.
C36_OtherFragmentKeepsWorking ==
  \A k \in Frags :
    (ctl[k].connected /\ k \notin torn /\ torn # {}) =>
      /\ \A i \in DOMAIN addOnsOf(ctl[k]) :
           InDocument(PlaceOf(addOnsOf(ctl[k])[i])) =>
             /\ addOnsOf(ctl[k])[i] \in Live
             /\ ListensTo(k, addOnsOf(ctl[k])[i])
      /\ (Submitted /\ last.by = k) => \E b \in Boxes : InDocument(b) /\ checked[b]

(***************************************************************************)
(* The checkboxes of a fragment that are no add-ons.                       *)
(***************************************************************************)
IsManaged(b) == IsPattern(b) \/ IsNeedle(b)

\* the notification that handleGenericCheckboxChange broadcasts for box b
\* in the state after the step
IsCheckboxChange(n, b) ==
  /\ n.type = "product:checkbox:change"
  /\ n.detail.name = (IF boxes[b].name # "" THEN boxes[b].name ELSE boxes[b].id)
  /\ n.detail.value = boxes[b].value
  /\ n.detail.isChecked = checked'[b]

\* C31: a change event on a checkbox of the fragment that is not managed only
\* broadcasts product:checkbox:change with the checkbox's name, value and
\* checked state: the price display, the presence class, the cached variant
\* price and the hidden pattern_product_id field stay as they are.  No
\* managed checkbox, pattern product or needle, ever carries the generic
\* listener: its change broadcasts no product:checkbox:change.
C31_GenericOnlyRebroadcasts ==
  [][ /\ (last'.op = "change" /\ ~IsManaged(last'.box)) =>
           /\ UNCHANGED <<priceText, priceClass, hidden, ctl, countText, curTitle>>
           /\ outbox' # <<>>
           /\ \A i \in DOMAIN outbox' : IsCheckboxChange(outbox'[i], last'.box)
      /\ (last'.op = "change" /\ IsManaged(last'.box)) =>
           \A i \in DOMAIN outbox' : outbox'[i].type # "product:checkbox:change"
      /\ \A b \in Boxes : IsManaged(b) => genericListeners'[b] = <<>> ]_vars

\* the checkbox gift_wrap has just been checked while an add-on is checked and
\* the host has rendered another variant than the one whose price is cached
C31_Witness ==
  /\ last.op = "change" /\ ~IsManaged(last.box) /\ checked[last.box]
  /\ \E i \in DOMAIN outbox :
       outbox[i].type = "product:checkbox:change" /\ outbox[i].detail.name = "gift_wrap"
  /\ priceClass
  /\ \E b \in Boxes : IsManaged(b) /\ checked[b]
  /\ blob.kind = "ok" /\ \E k \in Frags : ctl[k].currentVariantPrice # Num(blob.price)

(***************************************************************************)
(* What a listener on the document receives.                               *)
(***************************************************************************)
\* the events of that type from controller k that reach a listener on the
\* document: those dispatched on the document, and those dispatched on the
\* controller's element that bubble, the element being in the document
DeliveredToDocument(type, k) ==
  SelectSeq(outbox, LAMBDA n:
    /\ n.type = type /\ n.by = k
    /\ \/ n.on = "document"
       \/ n.on = "this" /\ n.bubbles /\ k \notin torn)

\* C39: a change event on a managed checkbox delivers, for each connected
\* controller that handles it, exactly one product:pattern:change to a
\* listener on the document, and a change event on a generic checkbox
\* exactly one product:checkbox:change: never two for one change.
C39_OneDeliveryPerChange ==
  last.op = "change" =>
    \A k \in Frags :
      /\ ListensTo(k, last.box) =>
           Len(DeliveredToDocument("product:pattern:change", k)) = 1
      /\ (\E i \in DOMAIN genericListeners[last.box] :
            genericListeners[last.box][i] = k) =>
           Len(DeliveredToDocument("product:checkbox:change", k)) = 1

(***************************************************************************)
(* The behaviour put on the host's variant-selects element.                *)
(***************************************************************************)
\* C32: the variant-selects element with the grafted methods follows the
\* protocol of the standalone listener: once connected on a page with the
\* host's publish/subscribe it is subscribed to variantChange and to
\* optionValueSelectionChange; a variantChange notification that carries a
\* variant stamps that variant's title on every add-on checkbox; and its
\* teardown leaves none of its subscriptions active.
C32_GraftFollowsProtocol ==
  /\ (prop.connected /\ win.pubsub) =>
       /\ listenerSubscribed("variantChange")
       /\ listenerSubscribed("optionValueSelectionChange")
  /\ (last.op = "variantChange" /\ prop.connected /\ win.pubsub
        /\ last.event.hasVariant /\ last.event.title # "") =>
       Stamped(curTitle, last.event.title)
  /\ last.op = "selectsDisconnected" => \A i \in DOMAIN subs : ~subs[i].active

(***************************************************************************)
(* The two versions of the controller on a page without needles.           *)
(***************************************************************************)
NoNeedles == \A b \in Boxes : ~IsNeedle(b)

\* the controller that handled the submit lies in the fragment of the
\* pattern product: both versions find the same checkbox
OwnPatternProduct(k) ==
  /\ k # 0 /\ ctl[k].patternProductCheckbox # 0
  /\ boxes[ctl[k].patternProductCheckbox].frag = k

\* C33: on a page without needles the controller for several add-ons does
\* what the controller for one add-on does on the same inputs: both take the
\* submit over in the same cases, and both send the same items in the same
\* order to the cart-add endpoint.
C33_GeneralizesSingleAddOn ==
  [][ (Submit /\ NoNeedles) =>
        /\ \A k \in Frags :
             takesOverSingleAddOn(World, k) <=> hasCheckedAddOn(World, k)
        /\ OwnPatternProduct(last'.by) =>
             /\ handleFormSubmitSingleAddOn(World, last'.by).outcome = last'.outcome
             /\ handleFormSubmitSingleAddOn(World, last'.by).items = last'.items ]_vars

====
